---- MODULE Spec2Model ----
(***************************************************************************)
(* Policy condition language (tools/rule_engine.py) and decision engine    *)
(* (tools/policy_tools.py) of the havoc part-sorting service.              *)
(*                                                                         *)
(* Condition strings are TLA+ strings; a character is a string of length   *)
(* one.  Python values (str, float, bool, None) are records with a type    *)
(* tag, so that the dynamic typing of the evaluator is explicit.           *)
(***************************************************************************)
EXTENDS Integers, Sequences, FiniteSets, TLC

\* ------------------------------------------------------------------------
\* Python values
\* ------------------------------------------------------------------------

\* A float is m / 10^e, kept normalised (no trailing zero in the fraction),
\* so that equal numbers are equal records.
RECURSIVE Normalize(_, _)
Normalize(m, e) ==
    IF e > 0 /\ m % 10 = 0 THEN Normalize(m \div 10, e - 1) ELSE [m |-> m, e |-> e]

None == [t |-> "none", s |-> "", m |-> 0, e |-> 0, b |-> FALSE]

Str(s) == [t |-> "str", s |-> s, m |-> 0, e |-> 0, b |-> FALSE]

Bool(b) == [t |-> "bool", s |-> "", m |-> 0, e |-> 0, b |-> b]

Num(m, e) ==
    LET n == Normalize(m, e)
    IN  [t |-> "num", s |-> "", m |-> n.m, e |-> n.e, b |-> FALSE]

\* v evaluated once, then used as b in F: an eagerly evaluated LET.
Bind(v, F(_)) == CHOOSE r \in { F(b) : b \in {v} } : TRUE

RECURSIVE Pow10(_)
Pow10(n) == IF n = 0 THEN 1 ELSE 10 * Pow10(n - 1)

\* ------------------------------------------------------------------------
\* Characters and the regular expressions of _PATTERNS
\* ------------------------------------------------------------------------

CharAt(s, i) == SubSeq(s, i, i)

Slice(s, i) == SubSeq(s, i, Len(s))

Digits == {"0", "1", "2", "3", "4", "5", "6", "7", "8", "9"}

Letters ==
    {"a", "b", "c", "d", "e", "f", "g", "h", "i", "j", "k", "l", "m",
     "n", "o", "p", "q", "r", "s", "t", "u", "v", "w", "x", "y", "z",
     "A", "B", "C", "D", "E", "F", "G", "H", "I", "J", "K", "L", "M",
     "N", "O", "P", "Q", "R", "S", "T", "U", "V", "W", "X", "Y", "Z"}

IsSpace(c) == c \in {" ", "\t", "\n", "\r"}

IsDigit(c) == c \in Digits

IsIdentStart(c) == c \in Letters \cup {"_"}

IsWord(c) == c \in Letters \cup Digits \cup {"_"}

DigitVal(c) ==
    CASE c = "0" -> 0 [] c = "1" -> 1 [] c = "2" -> 2 [] c = "3" -> 3
      [] c = "4" -> 4 [] c = "5" -> 5 [] c = "6" -> 6 [] c = "7" -> 7
      [] c = "8" -> 8 [] c = "9" -> 9

\* Length of the longest prefix of s whose characters all satisfy the class
\* (the greedy match of a starred character class).
RECURSIVE SpanSpace(_)
SpanSpace(s) ==
    IF Len(s) > 0 /\ IsSpace(Head(s)) THEN 1 + SpanSpace(Tail(s)) ELSE 0

RECURSIVE SpanDigits(_)
SpanDigits(s) ==
    IF Len(s) > 0 /\ IsDigit(Head(s)) THEN 1 + SpanDigits(Tail(s)) ELSE 0

RECURSIVE SpanWord(_)
SpanWord(s) ==
    IF Len(s) > 0 /\ IsWord(Head(s)) THEN 1 + SpanWord(Tail(s)) ELSE 0

RECURSIVE SpanNot(_, _)
SpanNot(s, q) ==
    IF Len(s) > 0 /\ Head(s) # q THEN 1 + SpanNot(Tail(s), q) ELSE 0

StartsWith(s, w) == Len(s) >= Len(w) /\ SubSeq(s, 1, Len(w)) = w

\* r"\s+"
MatchSpace(s) == SpanSpace(s)

\* r"AND\b", r"OR\b", r"true\b", r"false\b": the keyword, then a word
\* boundary (the end of the text or a non-word character).
MatchKeyword(s, w) ==
    IF StartsWith(s, w) /\ (Len(s) = Len(w) \/ ~IsWord(CharAt(s, Len(w) + 1)))
    THEN Len(w) ELSE 0

\* r"!=", r"==", r">=", r"<=", r">", r"<", r"\(", r"\)"
MatchLiteral(s, w) == IF StartsWith(s, w) THEN Len(w) ELSE 0

\* r"'[^']*'" and r'"[^"]*"'
MatchQuoted(s, q) ==
    IF Len(s) > 0 /\ Head(s) = q
    THEN LET n == SpanNot(Tail(s), q)
         IN  IF n + 2 <= Len(s) THEN n + 2 ELSE 0
    ELSE 0

\* r"-?\d+(\.\d+)?"
MatchNumber(s) ==
    LET sign == IF Len(s) > 0 /\ Head(s) = "-" THEN 1 ELSE 0
        int  == SpanDigits(Slice(s, sign + 1))
        dot  == sign + int + 1
        frac == IF dot <= Len(s) /\ CharAt(s, dot) = "."
                THEN SpanDigits(Slice(s, dot + 1)) ELSE 0
    IN  IF int = 0 THEN 0
        ELSE IF frac > 0 THEN sign + int + 1 + frac
        ELSE sign + int

\* r"[a-zA-Z_]\w*"
MatchIdentifier(s) ==
    IF Len(s) > 0 /\ IsIdentStart(Head(s)) THEN 1 + SpanWord(Tail(s)) ELSE 0

\* int(d[:n]) for a string d of decimal digits
RECURSIVE DigitsUpTo(_, _)
DigitsUpTo(d, n) ==
    IF n = 0 THEN 0 ELSE 10 * DigitsUpTo(d, n - 1) + DigitVal(CharAt(d, n))

\* int(digits) for a string of decimal digits
DigitsValue(d) == DigitsUpTo(d, Len(d))

Signed(neg, m) == IF neg THEN 0 - m ELSE m

\* The float of int digits, "." and frac digits (frac = 0: no fraction).
DecimalValue(neg, body, int, frac) ==
    Num(Signed(neg, DigitsValue(SubSeq(body, 1, int)) * Pow10(frac)
                    + DigitsValue(SubSeq(body, int + 2, int + 1 + frac))),
        frac)

\* float(raw) for a lexeme of the NUMBER pattern
FloatOfUnsigned(neg, body, int) ==
    DecimalValue(neg, body, int, IF int < Len(body) THEN Len(body) - int - 1 ELSE 0)

FloatOfLexeme(raw) ==
    IF Head(raw) = "-"
    THEN FloatOfUnsigned(TRUE, Tail(raw), SpanDigits(Tail(raw)))
    ELSE FloatOfUnsigned(FALSE, raw, SpanDigits(raw))

\* ------------------------------------------------------------------------
\* Lexer
\* ------------------------------------------------------------------------

Token(type, value) == [type |-> type, value |-> value]

\* The patterns in the order tokenize tries them; "SPACE" stands for the
\* pattern whose token type is None.
\* The one-character operators tried before the two-character ones.
ShortestFirst ==
    <<"SPACE", "AND", "OR", "BOOL_TRUE", "BOOL_FALSE", "NEQ", "EQ", "GT", "LT",
      "GTE", "LTE", "LPAREN", "RPAREN", "STRING_SQ", "STRING_DQ", "NUMBER",
      "IDENTIFIER">>

_PATTERNS ==
    <<"SPACE", "AND", "OR", "BOOL_TRUE", "BOOL_FALSE", "NEQ", "EQ", "GTE",
      "LTE", "GT", "LT", "LPAREN", "RPAREN", "STRING_SQ", "STRING_DQ", "NUMBER",
      "IDENTIFIER">>

\* re.match(pattern, text): the length of the match, 0 when there is none
\* (no pattern matches the empty string).
MatchLen(p, s) ==
    CASE p = "SPACE"      -> MatchSpace(s)
      [] p = "AND"        -> MatchKeyword(s, "AND")
      [] p = "OR"         -> MatchKeyword(s, "OR")
      [] p = "BOOL_TRUE"  -> MatchKeyword(s, "true")
      [] p = "BOOL_FALSE" -> MatchKeyword(s, "false")
      [] p = "NEQ"        -> MatchLiteral(s, "!=")
      [] p = "EQ"         -> MatchLiteral(s, "==")
      [] p = "GTE"        -> MatchLiteral(s, ">=")
      [] p = "LTE"        -> MatchLiteral(s, "<=")
      [] p = "GT"         -> MatchLiteral(s, ">")
      [] p = "LT"         -> MatchLiteral(s, "<")
      [] p = "LPAREN"     -> MatchLiteral(s, "(")
      [] p = "RPAREN"     -> MatchLiteral(s, ")")
      [] p = "STRING_SQ"  -> MatchQuoted(s, "'")
      [] p = "STRING_DQ"  -> MatchQuoted(s, "\"")
      [] p = "NUMBER"     -> MatchNumber(s)
      [] p = "IDENTIFIER" -> MatchIdentifier(s)

\* The token appended, but a string keeps its quotes.
TokenOfRaw(p, raw) ==
    CASE p \in {"STRING_SQ", "STRING_DQ"} -> Token("STRING", Str(raw))
      [] p = "NUMBER" -> Token("NUMBER", FloatOfLexeme(raw))
      [] p \in {"BOOL_TRUE", "BOOL_FALSE"} -> Token("BOOL", Bool(raw = "true"))
      [] OTHER -> Token(p, Str(raw))

\* The token appended for a match of pattern p with text raw.
TokenOf(p, raw) ==
    CASE p \in {"STRING_SQ", "STRING_DQ"} ->
             Token("STRING", Str(SubSeq(raw, 2, Len(raw) - 1)))
      [] p = "NUMBER" -> Token("NUMBER", FloatOfLexeme(raw))
      [] p \in {"BOOL_TRUE", "BOOL_FALSE"} -> Token("BOOL", Bool(raw = "true"))
      [] OTHER -> Token(p, Str(raw))

\* The index of the first pattern, from k on, that matches s; 0 when none.
RECURSIVE FirstPattern(_, _)
FirstPattern(s, k) ==
    IF k > Len(_PATTERNS) THEN 0
    ELSE IF MatchLen(_PATTERNS[k], s) > 0 THEN k
    ELSE FirstPattern(s, k + 1)

\* One iteration of the loop, but pos += len(raw) is left out for whitespace.
LexedInPlace(expression, pos, tokens) ==
    Bind(Slice(expression, pos + 1), LAMBDA rest :
    Bind(FirstPattern(rest, 1), LAMBDA k :
        IF k = 0
        THEN [k |-> 0, pos |-> pos, tokens |-> <<>>]
        ELSE Bind(MatchLen(_PATTERNS[k], rest), LAMBDA n :
             Bind(SubSeq(rest, 1, n), LAMBDA raw :
                 [k      |-> k,
                  pos    |-> IF _PATTERNS[k] = "SPACE" THEN pos ELSE pos + n,
                  tokens |-> IF _PATTERNS[k] = "SPACE" THEN tokens
                             ELSE Append(tokens, TokenOf(_PATTERNS[k], raw))]))))

\* One iteration of the loop at offset pos: k is the first matching pattern
\* (0 when none matches), pos and tokens are the values after the iteration.
Lexed(expression, pos, tokens) ==
    Bind(Slice(expression, pos + 1), LAMBDA rest :
    Bind(FirstPattern(rest, 1), LAMBDA k :
        IF k = 0
        THEN [k |-> 0, pos |-> pos, tokens |-> <<>>]
        ELSE Bind(MatchLen(_PATTERNS[k], rest), LAMBDA n :
             Bind(SubSeq(rest, 1, n), LAMBDA raw :
                 [k      |-> k,
                  pos    |-> pos + n,
                  tokens |-> IF _PATTERNS[k] = "SPACE" THEN tokens
                             ELSE Append(tokens, TokenOf(_PATTERNS[k], raw))]))))

\* The raise of tokenize at offset pos with the tokens collected so far, but
\* the caller is given the tokens.
PartialTokens(pos, tokens) == [ok |-> FALSE, tokens |-> tokens, pos |-> pos]

\* raise SyntaxError(f"Unexpected character at position {pos}: ..."): the
\* tokens collected so far are lost with the frame.
Unexpected(pos, tokens) == [ok |-> FALSE, tokens |-> <<>>, pos |-> pos]

RECURSIVE TokenizeFrom(_, _, _)
\* The while loop of tokenize from offset pos (0-based, as in the code)
\* with the tokens collected so far.
TokenizeFrom(expression, pos, tokens) ==
    IF pos >= Len(expression)
    THEN [ok |-> TRUE, tokens |-> Append(tokens, Token("EOF", None)), pos |-> pos]
    ELSE Bind(Lexed(expression, pos, tokens), LAMBDA st :
             IF st.k = 0
             THEN Unexpected(pos, tokens)
             ELSE TokenizeFrom(expression, st.pos, st.tokens))

\* tokenize(expression): ok with the token list, or the SyntaxError raised
\* at offset pos.
tokenize(expression) == TokenizeFrom(expression, 0, <<>>)

\* ------------------------------------------------------------------------
\* AST nodes
\* ------------------------------------------------------------------------

LiteralNode(value) == [type |-> "LiteralNode", value |-> value]

IdentifierNode(name) == [type |-> "IdentifierNode", name |-> name]

ComparisonNode(left, op, right) ==
    [type |-> "ComparisonNode", left |-> left, op |-> op, right |-> right]

BinaryOpNode(left, op, right) ==
    [type |-> "BinaryOpNode", left |-> left, op |-> op, right |-> right]

NoNode == [type |-> "NoNode"]

\* ------------------------------------------------------------------------
\* Parser (recursive descent).  self._pos is threaded through the results:
\* a result is the node and the position after it, or the exception raised.
\* ------------------------------------------------------------------------

Parsed(node, pos) == [ok |-> TRUE, node |-> node, pos |-> pos, err |-> ""]

ParseError(err, pos) == [ok |-> FALSE, node |-> NoNode, pos |-> pos, err |-> err]

CmpTokens == {"EQ", "NEQ", "GT", "GTE", "LT", "LTE"}

\* self._peek().type; indexing the token list past its end is an IndexError.
_peek(tokens, pos) ==
    IF pos < Len(tokens) THEN tokens[pos + 1].type ELSE "IndexError"

\* self._expect(ttype) after node: advances, and fails on another type.
_expect(tokens, pos, ttype, node) ==
    IF pos >= Len(tokens) THEN ParseError("IndexError", pos)
    ELSE IF tokens[pos + 1].type # ttype THEN ParseError("SyntaxError", pos + 1)
    ELSE Parsed(node, pos + 1)

\* The frames the interpreter leaves to Parser.parse and the methods below
\* it: sys.getrecursionlimit() less the depth of the caller, here scaled down.
\* parse runs in frame 1; only the frames of the Parser's own methods count.
RecursionLimit == 12

\* A call that would make the stack deeper than the limit raises
\* RecursionError instead of running.
Overflows(depth) == depth > RecursionLimit

RECURSIVE _or_expr(_, _, _)
RECURSIVE OrLoop(_, _, _, _)
RECURSIVE _and_expr(_, _, _)
RECURSIVE AndLoop(_, _, _, _)
RECURSIVE _comparison(_, _, _)
RECURSIVE _atom(_, _, _)

\* '(' has been consumed by the method running at depth: or_expr, then ')'.
Parenthesised(tokens, pos, depth) ==
    Bind(_or_expr(tokens, pos, depth + 1), LAMBDA inner :
        IF ~inner.ok THEN inner
        ELSE _expect(tokens, inner.pos, "RPAREN", inner.node))

\* _atom running at depth; its first statement calls self._peek().
_atom(tokens, pos, depth) ==
    IF Overflows(depth + 1) THEN ParseError("RecursionError", pos)
    ELSE Bind(_peek(tokens, pos), LAMBDA t :
        CASE t = "IndexError" -> ParseError("IndexError", pos)
          [] t = "IDENTIFIER" ->
                 Parsed(IdentifierNode(tokens[pos + 1].value.s), pos + 1)
          [] t \in {"STRING", "NUMBER", "BOOL"} ->
                 Parsed(LiteralNode(tokens[pos + 1].value), pos + 1)
          [] t = "LPAREN" -> Parenthesised(tokens, pos + 1, depth)
          [] OTHER -> ParseError("SyntaxError", pos))

\* The rest of _comparison, but a comparison operator after the right atom
\* continues the comparison: a == b == c is read as a == (b == c).
ChainedComparison(tokens, left, depth) ==
    IF ~left.ok THEN left
    ELSE Bind(_peek(tokens, left.pos), LAMBDA t :
        IF t = "IndexError" THEN ParseError("IndexError", left.pos)
        ELSE IF t \in CmpTokens
             THEN Bind(_atom(tokens, left.pos + 1, depth + 1), LAMBDA right :
                      IF ~right.ok THEN right
                      ELSE IF _peek(tokens, right.pos) \in CmpTokens
                      THEN Bind(_atom(tokens, right.pos + 1, depth + 1), LAMBDA last :
                               IF ~last.ok THEN last
                               ELSE Parsed(ComparisonNode(left.node, t,
                                               ComparisonNode(right.node,
                                                   _peek(tokens, right.pos), last.node)),
                                           last.pos))
                      ELSE Parsed(ComparisonNode(left.node, t, right.node), right.pos))
        ELSE left)

\* The rest of _comparison once the left atom is parsed.
ComparisonAfter(tokens, left, depth) ==
    IF ~left.ok THEN left
    ELSE Bind(_peek(tokens, left.pos), LAMBDA t :
        IF t = "IndexError" THEN ParseError("IndexError", left.pos)
        ELSE IF t \in CmpTokens
             THEN Bind(_atom(tokens, left.pos + 1, depth + 1), LAMBDA right :
                      IF ~right.ok THEN right
                      ELSE Parsed(ComparisonNode(left.node, t, right.node), right.pos))
        ELSE left)

\* _comparison running at depth; its first statement calls self._peek().
_comparison(tokens, pos, depth) ==
    IF Overflows(depth + 1) THEN ParseError("RecursionError", pos)
    ELSE Bind(_peek(tokens, pos), LAMBDA t :
        IF t = "IndexError" THEN ParseError("IndexError", pos)
        ELSE IF t = "LPAREN" THEN Parenthesised(tokens, pos + 1, depth)
        ELSE Bind(_atom(tokens, pos, depth + 1), LAMBDA left :
                 ComparisonAfter(tokens, left, depth)))

\* The while loop of _and_expr with the left operand built so far.
AndLoop(tokens, left, pos, depth) ==
    Bind(_peek(tokens, pos), LAMBDA t :
        IF t = "IndexError" THEN ParseError("IndexError", pos)
        ELSE IF t = "AND"
             THEN Bind(_comparison(tokens, pos + 1, depth + 1), LAMBDA right :
                      IF ~right.ok THEN right
                      ELSE Bind(BinaryOpNode(left, "AND", right.node), LAMBDA node :
                               AndLoop(tokens, node, right.pos, depth)))
        ELSE Parsed(left, pos))

_and_expr(tokens, pos, depth) ==
    IF Overflows(depth) THEN ParseError("RecursionError", pos)
    ELSE Bind(_comparison(tokens, pos, depth + 1), LAMBDA left :
        IF ~left.ok THEN left ELSE AndLoop(tokens, left.node, left.pos, depth))

\* The while loop of _or_expr with the left operand built so far.
OrLoop(tokens, left, pos, depth) ==
    Bind(_peek(tokens, pos), LAMBDA t :
        IF t = "IndexError" THEN ParseError("IndexError", pos)
        ELSE IF t = "OR"
             THEN Bind(_and_expr(tokens, pos + 1, depth + 1), LAMBDA right :
                      IF ~right.ok THEN right
                      ELSE Bind(BinaryOpNode(left, "OR", right.node), LAMBDA node :
                               OrLoop(tokens, node, right.pos, depth)))
        ELSE Parsed(left, pos))

\* _or_expr whose first operand is a comparison: AND is not part of it.
FlatOrExpr(tokens, pos, depth) ==
    IF Overflows(depth) THEN ParseError("RecursionError", pos)
    ELSE Bind(_comparison(tokens, pos, depth + 1), LAMBDA left :
        IF ~left.ok THEN left ELSE OrLoop(tokens, left.node, left.pos, depth))

_or_expr(tokens, pos, depth) ==
    IF Overflows(depth) THEN ParseError("RecursionError", pos)
    ELSE Bind(_and_expr(tokens, pos, depth + 1), LAMBDA left :
        IF ~left.ok THEN left ELSE OrLoop(tokens, left.node, left.pos, depth))

\* The check of parse() after _or_expr: the next token must be EOF.
ExpectEOF(tokens, r) ==
    IF ~r.ok THEN r
    ELSE IF _peek(tokens, r.pos) = "IndexError" THEN ParseError("IndexError", r.pos)
    ELSE IF _peek(tokens, r.pos) # "EOF" THEN ParseError("SyntaxError", r.pos)
    ELSE r

\* Parser(tokens).parse(), running in frame 1
parse(tokens) == Bind(_or_expr(tokens, 0, 2), LAMBDA r : ExpectEOF(tokens, r))

\* ------------------------------------------------------------------------
\* Evaluator
\* ------------------------------------------------------------------------

\* float(), int and bool share Python's numeric tower: True is 1, False is 0.
IsNumeric(v) == v.t \in {"num", "bool"}

AsNumber(v) == IF v.t = "bool" THEN Num(IF v.b THEN 1 ELSE 0, 0) ELSE v

\* Python's a == b on str, float, bool and None
PyEq(a, b) ==
    IF IsNumeric(a) /\ IsNumeric(b) THEN AsNumber(a) = AsNumber(b) ELSE a = b

\* A bool() under which only boolean false is falsy.
TruthyUnlessFalse(v) == v.t # "bool" \/ v.b

\* Python's bool(v)
PyBool(v) ==
    CASE v.t = "num"  -> v.m # 0
      [] v.t = "str"  -> Len(v.s) > 0
      [] v.t = "bool" -> v.b
      [] OTHER        -> FALSE

\* The length of s without its trailing whitespace, s[:n] being considered.
RECURSIVE RStripLen(_, _)
RStripLen(s, n) ==
    IF n > 0 /\ IsSpace(CharAt(s, n)) THEN RStripLen(s, n - 1) ELSE n

\* s.strip()
Strip(s) == SubSeq(s, SpanSpace(s) + 1, RStripLen(s, Len(s)))

Converted(v) == [err |-> "", v |-> v]

Raised(err) == [err |-> err, v |-> None]

\* digits "." digits, all of body: int and frac are the lengths of the runs
DecimalWithFraction(neg, body, int, frac) ==
    IF int + 1 + frac = Len(body) /\ int + frac > 0
    THEN Converted(DecimalValue(neg, body, int, frac))
    ELSE Raised("ValueError")

Decimal(neg, body, int) ==
    IF int < Len(body) /\ CharAt(body, int + 1) = "."
    THEN DecimalWithFraction(neg, body, int, SpanDigits(Slice(body, int + 2)))
    ELSE IF int = Len(body) /\ int > 0
         THEN Converted(DecimalValue(neg, body, int, 0))
         ELSE Raised("ValueError")

SignedDecimal(t) ==
    IF Len(t) > 0 /\ Head(t) \in {"-", "+"}
    THEN Decimal(Head(t) = "-", Tail(t), SpanDigits(Tail(t)))
    ELSE Decimal(FALSE, t, SpanDigits(t))

\* float(s) for a str: surrounding whitespace, a sign, digits with an
\* optional fraction.  (Exponents, "inf", "nan" and digit-group underscores,
\* which float() also accepts, occur in no string of this model.)
FloatOfStr(s) == Bind(Strip(s), LAMBDA t : SignedDecimal(t))

\* A float() that converts numbers only and rejects all else with TypeError.
FloatOfNumbersOnly(v) ==
    IF v.t = "num" THEN Converted(v) ELSE Raised("TypeError")

\* Python's float(v)
PyFloat(v) ==
    CASE v.t = "num"  -> Converted(v)
      [] v.t = "bool" -> Converted(AsNumber(v))
      [] v.t = "str"  -> FloatOfStr(v.s)
      [] OTHER        -> Raised("TypeError")

NumLess(x, y) == x.m * Pow10(y.e) < y.m * Pow10(x.e)

\* float(a) <op> float(b) once both conversions are done
Ordered(op, fa, fb) ==
    IF fa.err # "" THEN Raised(fa.err)
    ELSE IF fb.err # "" THEN Raised(fb.err)
    ELSE Converted(Bool(
             CASE op = "GT"  -> NumLess(fb.v, fa.v)
               [] op = "GTE" -> ~NumLess(fa.v, fb.v)
               [] op = "LT"  -> NumLess(fa.v, fb.v)
               [] op = "LTE" -> ~NumLess(fb.v, fa.v)))

\* The ordering lambdas: float(a) <op> float(b), float(a) converted first.
Ordering(op, a, b) ==
    Bind(PyFloat(a), LAMBDA fa : Bind(PyFloat(b), LAMBDA fb : Ordered(op, fa, fb)))

\* _CMP_OPS[op](a, b)
_CMP_OPS(op, a, b) ==
    CASE op = "EQ"  -> Converted(Bool(PyEq(a, b)))
      [] op = "NEQ" -> Converted(Bool(~PyEq(a, b)))
      [] OTHER      -> Ordering(op, a, b)

\* context.get(name)
ContextGet(context, name) ==
    IF name \in DOMAIN context THEN context[name] ELSE None

\* The dict after context.get(name): get never inserts the key.
DictAfterGet(context, name) == context

\* The dict after evaluate was called on these nodes, in order.
RECURSIVE ContextAfter(_, _)
ContextAfter(context, calls) ==
    IF Len(calls) = 0 THEN context
    ELSE ContextAfter(IF Head(calls).type = "IdentifierNode"
                      THEN DictAfterGet(context, Head(calls).name) ELSE context,
                      Tail(calls))

\* An outcome of evaluate: the value returned or the exception raised, and
\* the nodes evaluate was called on, in call order.
Outcome(err, v, calls) == [err |-> err, v |-> v, calls |-> calls]

\* A ComparisonNode once both operands are evaluated.
Compared(node, left, right) ==
    IF left.err # "" THEN Outcome(left.err, None, <<node>> \o left.calls)
    ELSE IF right.err # ""
         THEN Outcome(right.err, None, <<node>> \o left.calls \o right.calls)
    ELSE Bind(_CMP_OPS(node.op, left.v, right.v), LAMBDA r :
             Outcome(r.err, r.v, <<node>> \o left.calls \o right.calls))

\* bool(left) and/or bool(evaluate(node.right, context)): the right operand
\* is evaluated only when the left one does not decide.
RECURSIVE evaluate(_, _)
RightOperand(node, left, context) ==
    Bind(evaluate(node.right, context), LAMBDA right :
        IF right.err # ""
        THEN Outcome(right.err, None, <<node>> \o left.calls \o right.calls)
        ELSE Outcome("", Bool(PyBool(right.v)), <<node>> \o left.calls \o right.calls))

\* An AND/OR that evaluates its right operand whatever the left one is.
CombinedEagerly(node, left, context) ==
    IF left.err # "" THEN Outcome(left.err, None, <<node>> \o left.calls)
    ELSE Bind(RightOperand(node, left, context), LAMBDA r :
             IF r.err # "" THEN r
             ELSE Outcome("", Bool(IF node.op = "AND"
                                   THEN PyBool(left.v) /\ r.v.b
                                   ELSE PyBool(left.v) \/ r.v.b), r.calls))

\* A BinaryOpNode once its left operand is evaluated.
Combined(node, left, context) ==
    IF left.err # "" THEN Outcome(left.err, None, <<node>> \o left.calls)
    ELSE IF node.op = "AND"
         THEN IF ~PyBool(left.v)
              THEN Outcome("", Bool(FALSE), <<node>> \o left.calls)
              ELSE RightOperand(node, left, context)
    ELSE IF node.op = "OR"
         THEN IF PyBool(left.v)
              THEN Outcome("", Bool(TRUE), <<node>> \o left.calls)
              ELSE RightOperand(node, left, context)
    ELSE Outcome("ValueError", None, <<node>> \o left.calls)

evaluate(node, context) ==
    CASE node.type = "LiteralNode" -> Outcome("", node.value, <<node>>)
      [] node.type = "IdentifierNode" ->
             Outcome("", ContextGet(context, node.name), <<node>>)
      [] node.type = "ComparisonNode" ->
             Bind(evaluate(node.left, context), LAMBDA left :
             Bind(evaluate(node.right, context), LAMBDA right :
                 Compared(node, left, right)))
      [] node.type = "BinaryOpNode" ->
             Bind(evaluate(node.left, context), LAMBDA left :
                 Combined(node, left, context))
      [] OTHER -> Outcome("ValueError", None, <<node>>)

\* evaluate_condition(condition, context): the bool returned, or the
\* exception of tokenize, parse or evaluate.
evaluate_condition(condition, context) ==
    LET tokens == tokenize(condition)
        ast    == parse(tokens.tokens)
        out    == evaluate(ast.node, context)
    IN  IF ~tokens.ok THEN Raised("SyntaxError")
        ELSE IF ~ast.ok THEN Raised(ast.err)
        ELSE IF out.err # "" THEN Raised(out.err)
        ELSE Converted(Bool(PyBool(out.v)))

\* ------------------------------------------------------------------------
\* Decision engine: evaluate_policy
\* ------------------------------------------------------------------------

\* Bounds of the decision engine's inputs.
MaxRules == 2

MaxPriority == 2

VARIABLES
    classification,  \* PartClassification passed to evaluate_policy
    defects,         \* DefectInspection passed to evaluate_policy
    policy,          \* ExecutablePolicy: decision_rules, default_action
    context,         \* the fact context built from the measurements
    sorted_rules,    \* sorted(policy.decision_rules, key=priority)
    idx,             \* position of the for loop in sorted_rules (1-based)
    pc,              \* idle | scanning | matched | exhausted | raised
    decisions,       \* the Decisions returned so far
    visits,          \* ids of the rules evaluate_condition was called on
    ec_condition,    \* evaluate_condition: the condition string
    ec_context,      \* evaluate_condition: the fact context
    ec_pc,           \* tokenize | parse | evaluate | done | raised
    ec_tokens,       \* the token list of tokenize
    ec_ast,          \* the AST of Parser(tokens).parse()
    ec_out,          \* the outcome of evaluate(ast, context)
    ec_result,       \* what evaluate_condition returns or raises
    invocation,      \* concurrent callers: arguments, position, result of each
    frame,           \* concurrent callers: the token list and AST of each call
    lx_expression,   \* tokenize, step by step: the argument
    lx_pos,          \* tokenize: pos
    lx_tokens,       \* tokenize: tokens
    lx_pc,           \* idle | loop | returned | raised
    tool,            \* the policy tool called: check_safety | validate_policy | diff_policies
    tool_args,       \* its arguments
    tool_pc,         \* idle | called | returned
    tool_result,     \* what it returned
    _dobot_live,     \* DualAdapter._dobot_live
    commands,        \* DualAdapter: the pick/place/move/stop calls and their progress
    dobot_contacts,  \* the calls that reached the Dobot adapter, in order
    _db,             \* PolicyStore: the rows of table policies, by policy_id
    _active,         \* PolicyStore._active
    store_pc,        \* PolicyStore: open | closed | restarted
    active_at_close, \* active_policy when close was called
    _connections,    \* ConnectionManager._connections
    broadcast,       \* the broadcast in progress: iterator, dead list, position
    deliveries,      \* per websocket: the sends of the broadcast that reached it
    registered       \* websockets registered during the whole broadcast so far

policy_vars ==
    <<classification, defects, policy, context, sorted_rules, idx, pc,
      decisions, visits>>

ec_vars ==
    <<ec_condition, ec_context, ec_pc, ec_tokens, ec_ast, ec_out, ec_result>>

conc_vars == <<invocation, frame>>

lex_vars == <<lx_expression, lx_pos, lx_tokens, lx_pc>>

tool_vars == <<tool, tool_args, tool_pc, tool_result>>

dual_vars == <<_dobot_live, commands, dobot_contacts>>

store_vars == <<_db, _active, store_pc, active_at_close>>

ws_vars == <<_connections, broadcast, deliveries, registered>>

\* The condition engine, and the services around it.
engine_vars == <<policy_vars, ec_vars, conc_vars>>

service_vars == <<lex_vars, tool_vars, dual_vars, store_vars, ws_vars>>

vars == <<engine_vars, service_vars>>

\* DocumentSource | None
NoSource == [none |-> TRUE, document_name |-> "", page |-> 0]

DocumentSource(name, page) == [none |-> FALSE, document_name |-> name, page |-> page]

\* The conditions, actions, bins and provenance the rules of a policy are
\* drawn from.
RuleTemplates ==
    { [condition |-> "defect_detected == true", action |-> "REJECT",
       target_bin |-> "REJECT_BIN", source |-> DocumentSource("qa.pdf", 1)],
      [condition |-> "confidence < 0.7", action |-> "MANUAL_REVIEW",
       target_bin |-> "REVIEW_BIN", source |-> NoSource],
      [condition |-> "size_mm ? 5", action |-> "SORT",
       target_bin |-> "BIN_A", source |-> NoSource],
      [condition |-> "size_mm >>", action |-> "SORT",
       target_bin |-> "BIN_A", source |-> DocumentSource("sop.pdf", 2)],
      [condition |-> "color > 5", action |-> "PASS",
       target_bin |-> "BIN_B", source |-> DocumentSource("sop.pdf", 3)] }

RuleIds == <<"R1", "R2", "R3", "R4">>

DecisionRule(id, priority, t) ==
    [id |-> id, priority |-> priority, condition |-> t.condition,
     action |-> t.action, target_bin |-> t.target_bin, source |-> t.source]

\* Rule lists of length n with pairwise different conditions; the rule at
\* position k has id RuleIds[k].
RuleLists(n) ==
    { [k \in 1..n |-> DecisionRule(RuleIds[k], f[k][1], f[k][2])] :
        f \in { g \in [1..n -> (1..MaxPriority) \X RuleTemplates] :
                  \A i, j \in 1..n : i # j => g[i][2] # g[j][2] } }

DefaultActions ==
    { [action |-> "MANUAL_REVIEW", target_bin |-> "REVIEW_BIN"],
      [action |-> "REJECT", target_bin |-> "REJECT_BIN"] }

Classifications ==
    { [color |-> Str(c), color_hex |-> Str("#000000"), size_mm |-> Num(62, 0),
       size_category |-> Str("large"), part_type |-> Str("gear"),
       shape |-> Str("round"), confidence |-> Num(k, 1)] :
        c \in {"red"}, k \in {4, 9} }

DefectInspections ==
    { [defect_detected |-> Bool(FALSE), defects |-> <<>>,
       surface_quality |-> Str("perfect")],
      [defect_detected |-> Bool(TRUE), defects |-> <<"scratch">>,
       surface_quality |-> Str("poor")] }

\* context = {...} of evaluate_policy
BuildContext(c, d) ==
    [color |-> c.color, color_hex |-> c.color_hex, size_mm |-> c.size_mm,
     size_category |-> c.size_category, part_type |-> c.part_type,
     shape |-> c.shape, confidence |-> c.confidence,
     defect_detected |-> d.defect_detected,
     surface_quality |-> d.surface_quality,
     defect_count |-> Num(Len(d.defects), 0)]

\* sorted(rules, key=lambda r: r.priority): Python's sort is stable, so a
\* rule goes after every rule of lower or equal priority already placed.
\* Mutant: a rule goes before the rules of equal priority (an unstable sort).
RECURSIVE InsertBeforeEqual(_, _)
InsertBeforeEqual(s, r) ==
    IF Len(s) = 0 THEN <<r>>
    ELSE IF s[Len(s)].priority < r.priority THEN Append(s, r)
    ELSE Append(InsertBeforeEqual(SubSeq(s, 1, Len(s) - 1), r), s[Len(s)])

RECURSIVE InsertByPriority(_, _)
InsertByPriority(s, r) ==
    IF Len(s) = 0 THEN <<r>>
    ELSE IF s[Len(s)].priority <= r.priority THEN Append(s, r)
    ELSE Append(InsertByPriority(SubSeq(s, 1, Len(s) - 1), r), s[Len(s)])

RECURSIVE SortedByPriority(_)
SortedByPriority(rules) ==
    IF Len(rules) = 0 THEN <<>>
    ELSE Bind(SortedByPriority(SubSeq(rules, 1, Len(rules) - 1)), LAMBDA front :
             InsertByPriority(front, rules[Len(rules)]))

\* policy.decision_rules.sort(key=...): the list of the policy is reordered.
SortedInPlace(rules) == SortedByPriority(rules)

\* The list passed to sorted() after the call: sorted builds a new list and
\* leaves its argument as it was.
ArgumentOfSorted(rules) == rules

\* Mutant: except SyntaxError instead of except Exception.
CaughtSyntaxErrorOnly(err) == err = "SyntaxError"

Caught(err) ==
    err \in {"SyntaxError", "IndexError", "TypeError", "ValueError", "RecursionError"}

\* Decision(...) of the matching rule
\* Decision(...) of a match built without source=rule.source, as the default
\* Decision is.
DecisionWithoutSource(rule, c) ==
    [target_bin |-> rule.target_bin, action |-> rule.action, rule_id |-> rule.id,
     rule_condition |-> rule.condition, source |-> NoSource,
     confidence |-> c.confidence]

MatchedDecision(rule, c) ==
    [target_bin |-> rule.target_bin, action |-> rule.action, rule_id |-> rule.id,
     rule_condition |-> rule.condition, source |-> rule.source,
     confidence |-> c.confidence]

\* Mutant: Decision(...) built without the policy's default_action, so with
\* the field defaults of the Decision model.
DecisionModelDefaults(p, c) ==
    [target_bin |-> "REVIEW_BIN", action |-> "SORT", rule_id |-> "DEFAULT",
     rule_condition |-> "no_rule_matched", source |-> NoSource,
     confidence |-> c.confidence]

\* Decision(...) after the loop
DefaultDecision(p, c) ==
    [target_bin |-> p.default_action.target_bin, action |-> p.default_action.action,
     rule_id |-> "DEFAULT", rule_condition |-> "no_rule_matched",
     source |-> NoSource, confidence |-> c.confidence]

\* Mutant: the loop does not advance.
SameRule(i) == i

\* The for loop advances to the next rule.
NextRule(i) == i + 1

\* The for loop from position i: the Decision returned, or the exception
\* that leaves evaluate_policy.
RECURSIVE ScanFrom(_, _, _, _, _)
ScanFrom(rules, i, ctx, p, c) ==
    IF i > Len(rules) THEN [err |-> "", decision |-> DefaultDecision(p, c)]
    ELSE LET out == evaluate_condition(rules[i].condition, ctx)
         IN  IF out.err # ""
             THEN IF Caught(out.err) THEN ScanFrom(rules, NextRule(i), ctx, p, c)
                  ELSE [err |-> out.err, decision |-> DefaultDecision(p, c)]
             ELSE IF out.v.b
                  THEN [err |-> "", decision |-> MatchedDecision(rules[i], c)]
                  ELSE ScanFrom(rules, NextRule(i), ctx, p, c)

\* evaluate_policy(classification, defects, policy) as a function
evaluate_policy(c, d, p) ==
    ScanFrom(SortedByPriority(p.decision_rules), 1, BuildContext(c, d), p, c)

\* ------------------------------------------------------------------------
\* evaluate_condition, step by step
\* ------------------------------------------------------------------------

\* tokens = tokenize(condition)
Tokenize ==
    /\ ec_pc = "tokenize"
    /\ ec_tokens' = tokenize(ec_condition)
    /\ IF ec_tokens'.ok
       THEN ec_pc' = "parse" /\ ec_result' = ec_result
       ELSE ec_pc' = "raised" /\ ec_result' = Raised("SyntaxError")
    /\ UNCHANGED <<ec_condition, ec_context, ec_ast, ec_out>>
    /\ UNCHANGED policy_vars
    /\ UNCHANGED <<conc_vars, service_vars>>

\* ast = Parser(tokens).parse()
Parse ==
    /\ ec_pc = "parse"
    /\ ec_ast' = parse(ec_tokens.tokens)
    /\ IF ec_ast'.ok
       THEN ec_pc' = "evaluate" /\ ec_result' = ec_result
       ELSE ec_pc' = "raised" /\ ec_result' = Raised(ec_ast'.err)
    /\ UNCHANGED <<ec_condition, ec_context, ec_tokens, ec_out>>
    /\ UNCHANGED policy_vars
    /\ UNCHANGED <<conc_vars, service_vars>>

\* return bool(evaluate(ast, context))
Evaluate ==
    /\ ec_pc = "evaluate"
    /\ ec_out' = evaluate(ec_ast.node, ec_context)
    /\ IF ec_out'.err = ""
       THEN ec_pc' = "done" /\ ec_result' = Converted(Bool(PyBool(ec_out'.v)))
       ELSE ec_pc' = "raised" /\ ec_result' = Raised(ec_out'.err)
    /\ ec_context' = ContextAfter(ec_context, ec_out'.calls)
    /\ UNCHANGED <<ec_condition, ec_tokens, ec_ast>>
    /\ UNCHANGED policy_vars
    /\ UNCHANGED <<conc_vars, service_vars>>

EcIdle ==
    /\ ec_condition = ""
    /\ ec_context = <<>>
    /\ ec_pc = "idle"
    /\ ec_tokens = [ok |-> FALSE, tokens |-> <<>>, pos |-> 0]
    /\ ec_ast = ParseError("", 0)
    /\ ec_out = Outcome("", None, <<>>)
    /\ ec_result = Raised("")

\* ------------------------------------------------------------------------
\* evaluate_policy, step by step
\* ------------------------------------------------------------------------

PolicyInputs ==
    /\ classification \in Classifications
    /\ defects \in DefectInspections
    /\ policy \in { [decision_rules |-> r, default_action |-> a] :
                      r \in UNION { RuleLists(n) : n \in 0..MaxRules },
                      a \in DefaultActions }

PolicyIdle ==
    /\ context = <<>>
    /\ sorted_rules = <<>>
    /\ idx = 0
    /\ decisions = <<>>
    /\ visits = <<>>

\* No concurrent callers.
ConcIdle ==
    /\ invocation = <<>>
    /\ frame = <<>>

\* tokenize is not being stepped through.
LexIdle ==
    /\ lx_expression = ""
    /\ lx_pos = 0
    /\ lx_tokens = <<>>
    /\ lx_pc = "idle"

\* No policy tool is called.
ToolIdle ==
    /\ tool = ""
    /\ tool_args = <<>>
    /\ tool_pc = "idle"
    /\ tool_result = <<>>

\* No DualAdapter.
DualIdle ==
    /\ _dobot_live = TRUE
    /\ commands = <<>>
    /\ dobot_contacts = <<>>

\* No PolicyStore.
StoreIdle ==
    /\ _db = <<>>
    /\ _active = ""
    /\ store_pc = "idle"
    /\ active_at_close = ""

\* No ConnectionManager.
WsIdle ==
    /\ _connections = <<>>
    /\ broadcast = <<>>
    /\ deliveries = <<>>
    /\ registered = {}

ServiceIdle == LexIdle /\ ToolIdle /\ DualIdle /\ StoreIdle /\ WsIdle

Init ==
    /\ PolicyInputs /\ PolicyIdle /\ pc = "idle" /\ EcIdle /\ ConcIdle
    /\ ServiceIdle

\* evaluate_policy is called: the context is built and the rules sorted.
EnterEvaluatePolicy ==
    /\ pc = "idle"
    /\ context' = BuildContext(classification, defects)
    /\ sorted_rules' = SortedByPriority(policy.decision_rules)
    /\ idx' = 1
    /\ pc' = "scanning"
    /\ policy' = [policy EXCEPT !.decision_rules = ArgumentOfSorted(@)]
    /\ UNCHANGED <<classification, defects, decisions, visits>>
    /\ UNCHANGED ec_vars
    /\ UNCHANGED <<conc_vars, service_vars>>

\* The loop body calls evaluate_condition(rule.condition, context).
CallEvaluateCondition ==
    /\ pc = "scanning"
    /\ idx <= Len(sorted_rules)
    /\ ec_pc = "idle"
    /\ ec_condition' = sorted_rules[idx].condition
    /\ ec_context' = context
    /\ ec_pc' = "tokenize"
    /\ visits' = Append(visits, sorted_rules[idx].id)
    /\ UNCHANGED <<ec_tokens, ec_ast, ec_out, ec_result>>
    /\ UNCHANGED <<classification, defects, policy, context, sorted_rules, idx, pc,
                   decisions>>
    /\ UNCHANGED <<conc_vars, service_vars>>

\* The rule's condition is true: return its Decision.
RuleMatches ==
    /\ pc = "scanning"
    /\ ec_pc = "done"
    /\ ec_result.v.b
    /\ decisions' = Append(decisions, MatchedDecision(sorted_rules[idx], classification))
    /\ pc' = "matched"
    /\ ec_pc' = "idle"
    /\ UNCHANGED <<classification, defects, policy, context, sorted_rules, idx, visits>>
    /\ UNCHANGED <<ec_condition, ec_context, ec_tokens, ec_ast, ec_out, ec_result>>
    /\ UNCHANGED <<conc_vars, service_vars>>

\* The rule's condition is false: next rule.
RuleDoesNotMatch ==
    /\ pc = "scanning"
    /\ ec_pc = "done"
    /\ ~ec_result.v.b
    /\ idx' = NextRule(idx)
    /\ ec_pc' = "idle"
    /\ UNCHANGED <<classification, defects, policy, context, sorted_rules, pc,
                   decisions, visits>>
    /\ UNCHANGED <<ec_condition, ec_context, ec_tokens, ec_ast, ec_out, ec_result>>
    /\ UNCHANGED <<conc_vars, service_vars>>

\* The rule's condition raises: the except clause logs it and continues
\* with the next rule; an exception it does not catch leaves evaluate_policy.
RuleRaises ==
    /\ pc = "scanning"
    /\ ec_pc = "raised"
    /\ IF Caught(ec_result.err)
       THEN idx' = NextRule(idx) /\ pc' = pc
       ELSE idx' = idx /\ pc' = "raised"
    /\ ec_pc' = "idle"
    /\ UNCHANGED <<classification, defects, policy, context, sorted_rules, decisions,
                   visits>>
    /\ UNCHANGED <<ec_condition, ec_context, ec_tokens, ec_ast, ec_out, ec_result>>
    /\ UNCHANGED <<conc_vars, service_vars>>

\* The loop is over without a match: return the default Decision.
Exhausted ==
    /\ pc = "scanning"
    /\ idx > Len(sorted_rules)
    /\ decisions' = Append(decisions, DefaultDecision(policy, classification))
    /\ pc' = "exhausted"
    /\ UNCHANGED <<classification, defects, policy, context, sorted_rules, idx, visits>>
    /\ UNCHANGED ec_vars
    /\ UNCHANGED <<conc_vars, service_vars>>

Next ==
    \/ EnterEvaluatePolicy
    \/ CallEvaluateCondition
    \/ Tokenize
    \/ Parse
    \/ Evaluate
    \/ RuleMatches
    \/ RuleDoesNotMatch
    \/ RuleRaises
    \/ Exhausted

Spec == Init /\ [][Next]_vars

\* evaluate_policy is a synchronous loop: a step that can be taken is taken.
FairSpec == Spec /\ WF_vars(Next)

\* ------------------------------------------------------------------------
\* evaluate_condition on its own: conditions and contexts in all their forms
\* ------------------------------------------------------------------------

Atoms ==
    {"color", "size_mm", "flag", "missing", "other", "'red'", "'62'", "'abc'", "''",
     "0", "1", "62", "0.5", "true", "false"}

CmpLexemes == {"==", "!=", ">", ">=", "<", "<="}

Comparisons == { a \o " " \o o \o " " \o b : a \in Atoms, o \in CmpLexemes, b \in Atoms }

LogicOperands ==
    {"color == 'red'", "size_mm > 50", "'abc' > 1", "missing", "missing < 1", "0",
     "true"}

Logic ==
    { l \o " " \o o \o " " \o r : l \in LogicOperands, o \in {"AND", "OR"},
                                   r \in LogicOperands }

Malformed ==
    {"", "size_mm >>", "color = 'red'", "(color", "a == b == c", "color == 'red' AND"}

\* Operands of AND and OR with the AST each one parses to.
PrecedenceOperands ==
    { [text |-> "flag", ast |-> IdentifierNode("flag")],
      [text |-> "size_mm > 50",
       ast  |-> ComparisonNode(IdentifierNode("size_mm"), "GT", LiteralNode(Num(50, 0)))],
      [text |-> "color == 'red'",
       ast  |-> ComparisonNode(IdentifierNode("color"), "EQ", LiteralNode(Str("red")))] }

LogicLexemes == {"AND", "OR"}

Joined(a, o1, b, o2, c) == a \o " " \o o1 \o " " \o b \o " " \o o2 \o " " \o c

\* a o1 b o2 c with two logical operators
Precedence ==
    { Joined(a.text, o1, b.text, o2, c.text) :
        a \in PrecedenceOperands, b \in PrecedenceOperands, c \in PrecedenceOperands,
        o1 \in LogicLexemes, o2 \in LogicLexemes }

ChainAtoms == {"color", "1"}

\* a o1 b o2 c with two comparison operators
Chains ==
    { Joined(a, o1, "'red'", o2, c) :
        a \in ChainAtoms, c \in ChainAtoms, o1 \in CmpLexemes, o2 \in CmpLexemes }

\* Parentheses at the top level, around operands of AND, OR and of a
\* comparison, nested, unbalanced and empty; tokens after an expression.
Grouped ==
    {"(color)", "(flag) == 1", "1 == (flag)", "(color) == 'red'", "'red' == (color)",
     "(size_mm) > (50)", "(color == 'red')", "(color == 'red') == true",
     "true == (color == 'red')", "size_mm > (50 AND flag)",
     "(flag OR color == 'red') AND size_mm > 50",
     "(flag AND color == 'red') OR size_mm > 50",
     "flag AND (size_mm > 50 OR missing)", "flag AND (flag AND missing)",
     "((color))", "(((color)))", "((flag) AND flag)", "()", "(", ")", "color)",
     "color flag", "color == 1 )", "color == 1 1", "flag AND OR flag", "AND", "== 1",
     "color (flag)", "(color) (flag)"}

\* Operators written without spaces, inside string literals, doubled and
\* broken; characters of no pattern.
Lexical ==
    {"size_mm>=62", "size_mm<=62", "size_mm>62", "size_mm<62", "color=='red'",
     "color!='red'", "size_mm >=62 AND size_mm<= 70", "1<=2>=3", "color == '>='",
     "color != \"<=\"", "'a==b' != color", "\"it's >= 1\" == color",
     "size_mm >== 1", "size_mm <== 1", "size_mm => 1", "size_mm > = 1",
     "size_mm === 1", "size_mm ! 1", "size_mm !== 1", "flag=true", "color == 'abc",
     "size_mm > 5 & flag", "size_mm ? 5", "size_mm > 50 # big", "@",
     "color == 'red' ; flag ~ 1", "-", "size_mm > -"}

\* Literals in their variants: signs, fractions, leading and trailing zeros,
\* both quote styles, a quote inside the other quotes.
Literals ==
    {"size_mm > -1.5", "size_mm >-1", "size_mm == 62.0", "size_mm == 062",
     "size_mm < 0.50", "size_mm >= 10.05", "-0 == 0", "color == \"red\"",
     "color == \"it's\"", "color == 'say \"hi\"'", "color == ' red '",
     "true AND false", "\"\" OR 'AND'", "-12.5", "'(flag)' == \"1 == 1\""}

Conditions ==
    Atoms \cup Comparisons \cup Logic \cup Malformed \cup Precedence \cup Chains
      \cup Grouped \cup Lexical \cup Literals

\* "missing" and "other" are facts of no context.
Contexts ==
    { [color |-> Str("red"), size_mm |-> Num(62, 0), flag |-> Bool(TRUE)],
      [color |-> Str("blue"), size_mm |-> Num(0, 0), flag |-> Bool(FALSE)],
      [color |-> Str("blue"), size_mm |-> Num(62, 0)],
      [color |-> Str(""), size_mm |-> Num(5, 1)] }

EvalInit ==
    /\ classification \in { c \in Classifications : c.color = Str("red") /\ c.confidence = Num(4, 1) }
    /\ defects \in { d \in DefectInspections : ~d.defect_detected.b }
    /\ policy = [decision_rules |-> <<>>,
                 default_action |-> [action |-> "MANUAL_REVIEW", target_bin |-> "REVIEW_BIN"]]
    /\ PolicyIdle
    /\ pc = "off"
    /\ ec_condition \in Conditions
    /\ ec_context \in Contexts
    /\ ec_pc = "tokenize"
    /\ ec_tokens = [ok |-> FALSE, tokens |-> <<>>, pos |-> 0]
    /\ ec_ast = ParseError("", 0)
    /\ ec_out = Outcome("", None, <<>>)
    /\ ec_result = Raised("")
    /\ ConcIdle
    /\ ServiceIdle

EvalNext == Tokenize \/ Parse \/ Evaluate

EvalSpec == EvalInit /\ [][EvalNext]_vars

\* ------------------------------------------------------------------------
\* Two callers at once: each invocation of evaluate_policy or
\* evaluate_condition runs in its own thread, and a thread may be suspended
\* between any two of its calls.
\* ------------------------------------------------------------------------

Callers == {1, 2}

\* Process-wide state: the token list and the AST of every call are kept in
\* one place.
ModuleLevel(caller) == 1

\* Where the token list and the AST of a call live: tokens and ast are locals
\* of evaluate_condition and attributes of the Parser instance it creates, so
\* every call has its own.
Owner(caller) == caller

TemplateOf(condition) == CHOOSE t \in RuleTemplates : t.condition = condition

ConcPolicies ==
    { [decision_rules |-> <<DecisionRule("R1", 2, TemplateOf("defect_detected == true")),
                            DecisionRule("R2", 1, TemplateOf("confidence < 0.7"))>>,
       default_action |-> [action |-> "MANUAL_REVIEW", target_bin |-> "REVIEW_BIN"]],
      [decision_rules |-> <<DecisionRule("R1", 1, TemplateOf("size_mm >>")),
                            DecisionRule("R2", 1, TemplateOf("defect_detected == true"))>>,
       default_action |-> [action |-> "REJECT", target_bin |-> "REJECT_BIN"]],
      [decision_rules |-> <<>>,
       default_action |-> [action |-> "REJECT", target_bin |-> "REJECT_BIN"]] }

ConcConditions == {"color == 'red' OR missing", "size_mm > 50 AND flag", "size_mm ? 5"}

ConcContexts ==
    { [color |-> Str("red"), size_mm |-> Num(62, 0), flag |-> Bool(TRUE)],
      [color |-> Str("blue"), size_mm |-> Num(62, 0)] }

\* A call that has not started, with its arguments.
NewCall(kind, c, d, p, condition, ctx) ==
    [kind |-> kind, classification |-> c, defects |-> d, policy |-> p,
     context |-> ctx, sorted_rules |-> <<>>, idx |-> 0, pc |-> "idle",
     ec_condition |-> condition, ec_result |-> Raised(""),
     result |-> Raised(""), interleaved |-> FALSE]

PolicyCalls ==
    { NewCall("policy", c, d, p, "", <<>>) :
        c \in Classifications, d \in DefectInspections, p \in ConcPolicies }

ConditionCalls ==
    { NewCall("condition", CHOOSE c \in Classifications : TRUE,
              CHOOSE d \in DefectInspections : TRUE,
              CHOOSE q \in ConcPolicies : q.decision_rules = <<>>, condition, ctx) :
        condition \in ConcConditions, ctx \in ConcContexts }

NoFrame == [tokens |-> [ok |-> FALSE, tokens |-> <<>>, pos |-> 0], ast |-> ParseError("", 0)]

ConcInit ==
    /\ classification \in { c \in Classifications : c.confidence = Num(4, 1) }
    /\ defects \in { d \in DefectInspections : ~d.defect_detected.b }
    /\ policy = [decision_rules |-> <<>>,
                 default_action |-> [action |-> "MANUAL_REVIEW", target_bin |-> "REVIEW_BIN"]]
    /\ PolicyIdle
    /\ pc = "off"
    /\ EcIdle
    /\ invocation \in [Callers -> PolicyCalls \cup ConditionCalls]
    /\ frame = [o \in Callers |-> NoFrame]
    /\ ServiceIdle

Me(c) == invocation[c]

\* Another caller is in the middle of its call.
OtherRunning(c) == \E d \in Callers \ {c} : Me(d).pc \notin {"idle", "returned"}

\* Caller c takes a step that leaves its invocation as r.
Becomes(c, r) ==
    invocation' = [invocation EXCEPT
                     ![c] = [r EXCEPT !.interleaved = Me(c).interleaved \/ OtherRunning(c)]]

\* evaluate_policy is called: the context is built and the rules sorted.
ThreadEnterEvaluatePolicy(c) ==
    /\ Me(c).kind = "policy"
    /\ Me(c).pc = "idle"
    /\ Becomes(c, [Me(c) EXCEPT
                     !.context = BuildContext(Me(c).classification, Me(c).defects),
                     !.sorted_rules = SortedByPriority(Me(c).policy.decision_rules),
                     !.idx = 1,
                     !.pc = "scanning"])
    /\ UNCHANGED <<frame, policy_vars, ec_vars, service_vars>>

\* evaluate_condition is called by a caller of its own.
ThreadEnterEvaluateCondition(c) ==
    /\ Me(c).kind = "condition"
    /\ Me(c).pc = "idle"
    /\ Becomes(c, [Me(c) EXCEPT !.pc = "tokenize"])
    /\ UNCHANGED <<frame, policy_vars, ec_vars, service_vars>>

\* The loop body calls evaluate_condition(rule.condition, context).
ThreadCallEvaluateCondition(c) ==
    /\ Me(c).pc = "scanning"
    /\ Me(c).idx <= Len(Me(c).sorted_rules)
    /\ Becomes(c, [Me(c) EXCEPT
                     !.ec_condition = Me(c).sorted_rules[Me(c).idx].condition,
                     !.pc = "tokenize"])
    /\ UNCHANGED <<frame, policy_vars, ec_vars, service_vars>>

\* The loop is over without a match: return the default Decision.
ThreadExhausted(c) ==
    /\ Me(c).pc = "scanning"
    /\ Me(c).idx > Len(Me(c).sorted_rules)
    /\ Becomes(c, [Me(c) EXCEPT
                     !.result = [err |-> "",
                                 decision |-> DefaultDecision(Me(c).policy,
                                                              Me(c).classification)],
                     !.pc = "returned"])
    /\ UNCHANGED <<frame, policy_vars, ec_vars, service_vars>>

\* tokens = tokenize(condition)
ThreadTokenize(c) ==
    /\ Me(c).pc = "tokenize"
    /\ frame' = [frame EXCEPT ![Owner(c)].tokens = tokenize(Me(c).ec_condition)]
    /\ IF tokenize(Me(c).ec_condition).ok
       THEN Becomes(c, [Me(c) EXCEPT !.pc = "parse"])
       ELSE Becomes(c, [Me(c) EXCEPT !.ec_result = Raised("SyntaxError"),
                                     !.pc = "outcome"])
    /\ UNCHANGED <<policy_vars, ec_vars, service_vars>>

\* The AST the parser of caller c builds from the tokens it holds.
ThreadAst(c) == parse(frame[Owner(c)].tokens.tokens)

\* ast = Parser(tokens).parse()
ThreadParse(c) ==
    /\ Me(c).pc = "parse"
    /\ frame' = [frame EXCEPT ![Owner(c)].ast = ThreadAst(c)]
    /\ IF ThreadAst(c).ok
       THEN Becomes(c, [Me(c) EXCEPT !.pc = "evaluate"])
       ELSE Becomes(c, [Me(c) EXCEPT !.ec_result = Raised(ThreadAst(c).err),
                                     !.pc = "outcome"])
    /\ UNCHANGED <<policy_vars, ec_vars, service_vars>>

\* evaluate(ast, context) of caller c
ThreadOut(c) == evaluate(frame[Owner(c)].ast.node, Me(c).context)

\* return bool(evaluate(ast, context))
ThreadEvaluate(c) ==
    /\ Me(c).pc = "evaluate"
    /\ Becomes(c, [Me(c) EXCEPT
                     !.ec_result = IF ThreadOut(c).err = ""
                                   THEN Converted(Bool(PyBool(ThreadOut(c).v)))
                                   ELSE Raised(ThreadOut(c).err),
                     !.pc = "outcome"])
    /\ UNCHANGED <<frame, policy_vars, ec_vars, service_vars>>

\* evaluate_condition returns or raises to a caller of its own.
ThreadReturnCondition(c) ==
    /\ Me(c).kind = "condition"
    /\ Me(c).pc = "outcome"
    /\ Becomes(c, [Me(c) EXCEPT !.result = Me(c).ec_result, !.pc = "returned"])
    /\ UNCHANGED <<frame, policy_vars, ec_vars, service_vars>>

\* What evaluate_policy does with the outcome of a rule's condition: return
\* the rule's Decision, go on with the next rule, or let the exception out.
AfterRule(me) ==
    IF me.ec_result.err # ""
    THEN IF Caught(me.ec_result.err)
         THEN [me EXCEPT !.idx = NextRule(me.idx), !.pc = "scanning"]
         ELSE [me EXCEPT !.result = [err |-> me.ec_result.err,
                                     decision |-> DefaultDecision(me.policy,
                                                                  me.classification)],
                         !.pc = "returned"]
    ELSE IF me.ec_result.v.b
         THEN [me EXCEPT !.result = [err |-> "",
                                     decision |-> MatchedDecision(me.sorted_rules[me.idx],
                                                                  me.classification)],
                         !.pc = "returned"]
         ELSE [me EXCEPT !.idx = NextRule(me.idx), !.pc = "scanning"]

\* evaluate_condition returns or raises to evaluate_policy.
ThreadRuleOutcome(c) ==
    /\ Me(c).kind = "policy"
    /\ Me(c).pc = "outcome"
    /\ Becomes(c, AfterRule(Me(c)))
    /\ UNCHANGED <<frame, policy_vars, ec_vars, service_vars>>

ConcNext ==
    \E c \in Callers :
        \/ ThreadEnterEvaluatePolicy(c)
        \/ ThreadEnterEvaluateCondition(c)
        \/ ThreadCallEvaluateCondition(c)
        \/ ThreadExhausted(c)
        \/ ThreadTokenize(c)
        \/ ThreadParse(c)
        \/ ThreadEvaluate(c)
        \/ ThreadReturnCondition(c)
        \/ ThreadRuleOutcome(c)

ConcSpec == ConcInit /\ [][ConcNext]_vars

\* ------------------------------------------------------------------------
\* Properties of evaluate_policy
\* ------------------------------------------------------------------------

Terminal == pc \in {"matched", "exhausted"}

Rules == policy.decision_rules

\* What evaluate_condition gives for rule i of the policy, as written.
ConditionOf(i) ==
    evaluate_condition(Rules[i].condition, BuildContext(classification, defects))

\* The rules whose condition evaluates true / fails.
TrueRules == { i \in 1..Len(Rules) : ConditionOf(i) = Converted(Bool(TRUE)) }

FailingRules == { i \in 1..Len(Rules) : ConditionOf(i).err # "" }

\* C1: when some rule's condition is true, the Decision returned names the
\* rule of smallest priority value among the true rules, and among those of
\* equal priority the one earliest in decision_rules.
C1_LowestPriorityEarliestWins ==
    (Terminal /\ TrueRules # {}) =>
        \E i \in TrueRules :
            /\ \A j \in TrueRules :
                   \/ Rules[i].priority < Rules[j].priority
                   \/ Rules[i].priority = Rules[j].priority /\ i <= j
            /\ Len(decisions) = 1
            /\ decisions[1].rule_id = Rules[i].id

\* Scenario C, and a tie: the later-listed rule of lower priority value wins
\* over an earlier true rule.
C1_Witness ==
    /\ Terminal
    /\ Len(Rules) = 2
    /\ TrueRules = {1, 2}
    /\ Rules[1].condition = "defect_detected == true" /\ Rules[1].priority = 2
    /\ Rules[2].condition = "confidence < 0.7" /\ Rules[2].priority = 1
    /\ decisions[1].rule_id = "R2"
    /\ decisions[1].target_bin = "REVIEW_BIN"

\* C2: when no rule's condition is true (the rule list may be empty), the
\* Decision returned is the default one: rule_id "DEFAULT" with the policy's
\* default action and bin.
C2_DefaultWhenNoRuleMatches ==
    (Terminal /\ TrueRules = {}) =>
        /\ Len(decisions) = 1
        /\ decisions[1].rule_id = "DEFAULT"
        /\ decisions[1].action = policy.default_action.action
        /\ decisions[1].target_bin = policy.default_action.target_bin

C2_Witness ==
    /\ pc = "exhausted"
    /\ Len(Rules) >= 1
    /\ TrueRules = {}
    /\ policy.default_action.action = "REJECT"
    /\ decisions[1].target_bin = "REJECT_BIN"

\* The policy without the rules whose condition fails.
RECURSIVE Keep(_, _)
Keep(rules, bad) ==
    IF Len(rules) = 0 THEN <<>>
    ELSE LET front == Keep(SubSeq(rules, 1, Len(rules) - 1), bad)
         IN  IF Len(rules) \in bad THEN front ELSE Append(front, rules[Len(rules)])

WithoutFailingRules ==
    [decision_rules |-> Keep(Rules, FailingRules),
     default_action |-> policy.default_action]

\* C3: no exception of a rule's condition leaves evaluate_policy, and the
\* Decision returned is the one returned for the rule list without the
\* failing rules.
C3_FailingRulesAreSkipped ==
    /\ pc # "raised"
    /\ Terminal =>
           /\ Len(decisions) = 1
           /\ evaluate_policy(classification, defects, WithoutFailingRules)
                  = [err |-> "", decision |-> decisions[1]]

\* Scenario D: a failing rule was evaluated first, and the rule after it
\* matched.
C3_Witness ==
    /\ pc = "matched"
    /\ Len(visits) = 2
    /\ \E i \in FailingRules : Rules[i].id = visits[1] /\ Rules[i].condition = "size_mm >>"
    /\ decisions[1].rule_id = visits[2]

\* C4: an invocation starts scanning, evaluates the rules in sorted order,
\* each at most once, returns exactly one Decision, in the state matched or
\* exhausted, which it always reaches; after a match no rule is evaluated.
C4_ScanLifecycle ==
    /\ [](pc \in {"idle", "scanning", "matched", "exhausted"})
    /\ [][pc = "idle" => pc' = "scanning"]_vars
    /\ [](/\ Len(visits) <= Len(sorted_rules)
          /\ \A k \in 1..Len(visits) : visits[k] = sorted_rules[k].id)
    /\ [](Len(decisions) = IF Terminal THEN 1 ELSE 0)
    /\ [][Terminal => (pc' = pc /\ visits' = visits /\ decisions' = decisions)]_vars
    /\ <>Terminal

\* A match on the first of several rules: the rules after it are not evaluated.
C4_Witness ==
    /\ pc = "matched"
    /\ Len(visits) = 1
    /\ Len(sorted_rules) = 2

\* ------------------------------------------------------------------------
\* Properties of evaluate and evaluate_condition
\* ------------------------------------------------------------------------

\* evaluate_condition has returned or raised.
Finished == ec_pc \in {"done", "raised"}

\* evaluate has been called on the parsed condition and has returned or raised.
Evaluated == ec_ast.ok /\ Finished

Ast == ec_ast.node

Absent(node) == node.type = "IdentifierNode" /\ node.name \notin DOMAIN ec_context

OrderingOps == {"GT", "GTE", "LT", "LTE"}

\* The parsed condition is one comparison with an operator of ops.
IsComparison(ops) == Evaluated /\ Ast.type = "ComparisonNode" /\ Ast.op \in ops

\* The values of the two operands of the comparison.
LeftValue == evaluate(Ast.left, ec_context).v

RightValue == evaluate(Ast.right, ec_context).v

\* C5: a condition that compares an absent fact with == or != returns false:
\* it neither returns true nor raises.
C5_AbsentFactNeverTrue ==
    (IsComparison({"EQ", "NEQ"}) /\ (Absent(Ast.left) \/ Absent(Ast.right))) =>
        ec_result = Converted(Bool(FALSE))

\* missing != 'red' has returned true.
C5_Reached ==
    /\ ec_condition = "missing != 'red'"
    /\ ec_pc = "done"
    /\ ec_result = Converted(Bool(TRUE))

\* C6: absent == x evaluates to false for every operand x, an absent
\* identifier included.
C6_AbsentEqualsNothing ==
    (IsComparison({"EQ"}) /\ Absent(Ast.left)) =>
        ec_out.err = "" /\ ec_out.v = Bool(FALSE)

\* missing == other, both absent, has evaluated to true.
C6_Reached ==
    /\ ec_condition = "missing == other"
    /\ ec_pc = "done"
    /\ Absent(Ast.left) /\ Absent(Ast.right)
    /\ ec_out.v = Bool(TRUE)

\* Equality without coercion: the same type and the same value.
SameTypeEqual(a, b) == a.t = b.t /\ a = b

\* C7: on operands that are strings, numbers or booleans, == is true only
\* for two equal values of the same type, and != is the negation of ==.
C7_TypeAwareEquality ==
    (IsComparison({"EQ", "NEQ"}) /\ LeftValue.t # "none" /\ RightValue.t # "none") =>
        /\ ec_out.err = ""
        /\ Ast.op = "EQ" => (ec_out.v.b => SameTypeEqual(LeftValue, RightValue))
        /\ Ast.op = "NEQ" => (~ec_out.v.b => SameTypeEqual(LeftValue, RightValue))

\* true == 1 has evaluated to true.
C7_Reached ==
    /\ ec_condition = "true == 1"
    /\ ec_pc = "done"
    /\ LeftValue = Bool(TRUE) /\ RightValue = Num(1, 0)
    /\ ec_out.v = Bool(TRUE)

\* The numeric ordering of two converted operands.
OrderingResult(op, x, y) ==
    CASE op = "GT"  -> x.m * Pow10(y.e) > y.m * Pow10(x.e)
      [] op = "GTE" -> x.m * Pow10(y.e) >= y.m * Pow10(x.e)
      [] op = "LT"  -> x.m * Pow10(y.e) < y.m * Pow10(x.e)
      [] op = "LTE" -> x.m * Pow10(y.e) <= y.m * Pow10(x.e)

IsNumeral(s) == Len(s) > 0 /\ \A i \in 1..Len(s) : CharAt(s, i) \in Digits

\* The exception float(v) raises, "" when it converts v.
FloatError(v) ==
    CASE v.t = "none" -> "TypeError"
      [] v.t = "str" /\ ~IsNumeral(v.s) -> "ValueError"
      [] OTHER -> ""

\* The number float(v) gives for a v it converts.
FloatValue(v) ==
    CASE v.t = "num"  -> v
      [] v.t = "bool" -> Num(IF v.b THEN 1 ELSE 0, 0)
      [] v.t = "str"  -> Num(DigitsValue(v.s), 0)

ScenarioCondition == "color == 'red' AND size_mm > 50"

\* C9: L AND R / L OR R evaluates L first, and R only when L is truthy /
\* falsy; the result is the conjunction / disjunction of the coerced sides,
\* and an R that is not evaluated cannot make the condition fail.  Scenarios
\* A and B give true and false.
C9_ShortCircuit ==
    /\ (Evaluated /\ Ast.type = "BinaryOpNode") =>
           LET L == evaluate(Ast.left, ec_context)
               R == evaluate(Ast.right, ec_context)
               decided == IF Ast.op = "AND" THEN ~PyBool(L.v) ELSE PyBool(L.v)
           IN  /\ Head(ec_out.calls) = Ast
               /\ SubSeq(ec_out.calls, 2, 1 + Len(L.calls)) = L.calls
               /\ L.err # "" => ec_out.err = L.err
               /\ (L.err = "" /\ decided) =>
                      /\ ec_out.calls = <<Ast>> \o L.calls
                      /\ ec_out.err = ""
                      /\ ec_out.v = Bool(Ast.op = "OR")
               /\ (L.err = "" /\ ~decided) =>
                      /\ ec_out.calls = <<Ast>> \o L.calls \o R.calls
                      /\ ec_out.err = R.err
                      /\ R.err = "" =>
                             ec_out.v = Bool(IF Ast.op = "AND"
                                             THEN PyBool(L.v) /\ PyBool(R.v)
                                             ELSE PyBool(L.v) \/ PyBool(R.v))
    /\ (Finished /\ ec_condition = ScenarioCondition
            /\ ec_context.size_mm = Num(62, 0)) =>
           ec_result = Converted(Bool(ec_context.color = Str("red")))

\* 0 AND 'abc' > 1 has returned false: the failing right side was not
\* evaluated.
C9_Witness ==
    /\ ec_condition = "0 AND 'abc' > 1"
    /\ ec_pc = "done"
    /\ evaluate(Ast.right, ec_context).err = "ValueError"
    /\ Len(ec_out.calls) = 2
    /\ ec_result = Converted(Bool(FALSE))

\* The value of a bare literal or identifier.
AtomValue ==
    IF Ast.type = "LiteralNode" THEN Ast.value
    ELSE IF Ast.name \in DOMAIN ec_context THEN ec_context[Ast.name] ELSE None

\* A non-zero number, a non-empty string or boolean true.
Truthy(v) ==
    \/ v.t = "num" /\ v.m # 0
    \/ v.t = "str" /\ Len(v.s) # 0
    \/ v.t = "bool" /\ v.b

\* C10: a condition that is one bare literal or identifier returns true
\* exactly when its value is a non-zero number, a non-empty string or true;
\* zero, the empty string, false and an absent fact return false, and none
\* raises.
C10_BareAtomTruthiness ==
    (Evaluated /\ Ast.type \in {"LiteralNode", "IdentifierNode"}) =>
        /\ ec_pc = "done"
        /\ ec_result = Converted(Bool(Truthy(AtomValue)))

\* The absent fact as the whole condition has returned false.
C10_Witness ==
    /\ ec_condition = "missing"
    /\ ec_pc = "done"
    /\ Absent(Ast)
    /\ ec_result = Converted(Bool(FALSE))

\* ------------------------------------------------------------------------
\* Properties of tokenize and Parser
\* ------------------------------------------------------------------------

\* tokenize returned a token list and Parser.parse has returned or raised.
ParseRan == ec_tokens.ok /\ ec_pc \in {"evaluate", "done", "raised"}

\* parse returned exactly this AST.
ParsesTo(node) == ParseRan /\ ec_ast.ok /\ ec_ast.node = node

\* parse raised a SyntaxError.
Rejected == ParseRan /\ ~ec_ast.ok /\ ec_ast.err = "SyntaxError"

\* C11: for comparison operands a, b, c: a OR b AND c parses as
\* OR(a, AND(b, c)), a AND b OR c as OR(AND(a, b), c), a chain of one logical
\* operator associates to the left, and a chain of two comparison operators
\* without parentheses is rejected with a SyntaxError.
C11_PrecedenceAndAssociativity ==
    /\ \A a \in PrecedenceOperands, b \in PrecedenceOperands, c \in PrecedenceOperands :
          /\ (ParseRan /\ ec_condition = Joined(a.text, "OR", b.text, "AND", c.text))
                => ParsesTo(BinaryOpNode(a.ast, "OR", BinaryOpNode(b.ast, "AND", c.ast)))
          /\ (ParseRan /\ ec_condition = Joined(a.text, "AND", b.text, "OR", c.text))
                => ParsesTo(BinaryOpNode(BinaryOpNode(a.ast, "AND", b.ast), "OR", c.ast))
          /\ \A o \in LogicLexemes :
                (ParseRan /\ ec_condition = Joined(a.text, o, b.text, o, c.text))
                  => ParsesTo(BinaryOpNode(BinaryOpNode(a.ast, o, b.ast), o, c.ast))
    /\ (ParseRan /\ ec_condition \in Chains) => Rejected

\* flag OR size_mm > 50 AND color == 'red' has been parsed and evaluated: the
\* root is OR and AND is its right operand.
C11_Witness ==
    /\ ec_condition = "flag OR size_mm > 50 AND color == 'red'"
    /\ ec_pc = "done"
    /\ Ast.op = "OR"
    /\ Ast.left = IdentifierNode("flag")
    /\ Ast.right.op = "AND"

\* The grammar of the parser as a language: the positions at which a phrase
\* that starts after i tokens can end.
\*   or_expr    := and_expr (OR and_expr)*
\*   and_expr   := comparison (AND comparison)*
\*   comparison := '(' or_expr ')' | atom (cmp_op atom)?
\*   atom       := '(' or_expr ')' | IDENTIFIER | literal
RECURSIVE OrEnds(_, _)
RECURSIVE AndEnds(_, _)
RECURSIVE ComparisonEnds(_, _)
RECURSIVE AtomEnds(_, _)

TypeAt(tokens, i) == tokens[i + 1].type

GroupEnds(tokens, i) ==
    IF TypeAt(tokens, i) = "LPAREN"
    THEN { j + 1 : j \in { k \in OrEnds(tokens, i + 1) : TypeAt(tokens, k) = "RPAREN" } }
    ELSE {}

AtomEnds(tokens, i) ==
    IF TypeAt(tokens, i) \in {"IDENTIFIER", "STRING", "NUMBER", "BOOL"} THEN {i + 1}
    ELSE GroupEnds(tokens, i)

ComparisonEnds(tokens, i) ==
    AtomEnds(tokens, i) \cup
    UNION { AtomEnds(tokens, j + 1) :
              j \in { k \in AtomEnds(tokens, i) : TypeAt(tokens, k) \in CmpTokens } }

AndEnds(tokens, i) ==
    ComparisonEnds(tokens, i) \cup
    UNION { AndEnds(tokens, j + 1) :
              j \in { k \in ComparisonEnds(tokens, i) : TypeAt(tokens, k) = "AND" } }

OrEnds(tokens, i) ==
    AndEnds(tokens, i) \cup
    UNION { OrEnds(tokens, j + 1) :
              j \in { k \in AndEnds(tokens, i) : TypeAt(tokens, k) = "OR" } }

\* The token list is an expr of the grammar followed by EOF.
GrammarAccepts(tokens) == \E j \in OrEnds(tokens, 0) : TypeAt(tokens, j) = "EOF"

\* C12: the parser accepts exactly the language of the grammar (while the
\* interpreter's stack suffices): parse returns an AST if and only if the
\* tokens are an expr of the grammar, so a parenthesised expression is
\* accepted as the left operand of a comparison as well as the right one.
C12_AcceptsTheGrammar ==
    (ParseRan /\ ec_ast.err # "RecursionError") =>
        (ec_ast.ok <=> GrammarAccepts(ec_tokens.tokens))

\* (flag) == 1 is an expr of the grammar and parse has raised SyntaxError,
\* while 1 == (flag) parses.
C12_Reached ==
    /\ ec_condition = "(flag) == 1"
    /\ Rejected
    /\ GrammarAccepts(ec_tokens.tokens)
    /\ parse(tokenize("1 == (flag)").tokens).ok

\* Conditions with a token after a complete expression.
TrailingTokens ==
    {"color flag", "color == 1 )", "color == 1 1", "color)", "color (flag)",
     "(color) (flag)", "a == b == c"}

\* C13: parse is total over the token lists of tokenize: it returns an AST
\* with every token up to EOF consumed, or it raises SyntaxError; it does not
\* fail in another way (IndexError past EOF, RecursionError), and a token
\* left after a complete expression is a SyntaxError.
C13_ParseTotal ==
    ParseRan =>
        /\ ec_ast.ok => /\ ec_ast.pos = Len(ec_tokens.tokens) - 1
                        /\ TypeAt(ec_tokens.tokens, ec_ast.pos) = "EOF"
        /\ ~ec_ast.ok => ec_ast.err = "SyntaxError"
        /\ ec_condition \in TrailingTokens => Rejected

\* Parentheses nested deeper than the stack allows: parse has raised
\* RecursionError, while a token after an expression raised SyntaxError.
C13_Reached ==
    /\ ec_condition = "(((color)))"
    /\ ParseRan
    /\ ~ec_ast.ok
    /\ ec_ast.err = "RecursionError"
    /\ parse(tokenize("color == 1 )").tokens).err = "SyntaxError"

\* tokenize has returned or raised.
TokenizeRan == ec_pc \in {"parse", "evaluate", "done", "raised"}

\* The two characters of s from index i on.
TwoAt(s, i) == IF i + 1 <= Len(s) THEN SubSeq(s, i, i + 1) ELSE ""

OperatorName(w) ==
    CASE w = ">=" -> "GTE" [] w = "<=" -> "LTE" [] w = "==" -> "EQ" [] w = "!=" -> "NEQ"
      [] w = ">" -> "GT" [] w = "<" -> "LT"

\* The comparison operators written in s from index i on, read left to right
\* with the longest operator first; q is the quote of the string literal that
\* index i is inside of, "" outside a literal.
RECURSIVE OperatorsFrom(_, _, _)
OperatorsFrom(s, i, q) ==
    IF i > Len(s) THEN <<>>
    ELSE IF q # "" THEN OperatorsFrom(s, i + 1, IF CharAt(s, i) = q THEN "" ELSE q)
    ELSE IF CharAt(s, i) \in {"'", "\""} THEN OperatorsFrom(s, i + 1, CharAt(s, i))
    ELSE IF TwoAt(s, i) \in {">=", "<=", "==", "!="}
         THEN <<OperatorName(TwoAt(s, i))>> \o OperatorsFrom(s, i + 2, "")
    ELSE IF CharAt(s, i) \in {">", "<"}
         THEN <<OperatorName(CharAt(s, i))>> \o OperatorsFrom(s, i + 1, "")
    ELSE OperatorsFrom(s, i + 1, "")

TypesOf(tokens) == [k \in 1..Len(tokens) |-> tokens[k].type]

\* The comparison tokens of a token list, in order.
OperatorTokens(tokens) == TypesOf(SelectSeq(tokens, LAMBDA t : t.type \in CmpTokens))

\* The last token before EOF of the text before offset pos.
LastTokenBefore(s, pos) ==
    tokenize(SubSeq(s, 1, pos)).tokens[Len(tokenize(SubSeq(s, 1, pos)).tokens) - 1]

\* tokenize failed at offset pos on the = of a >= or <= whose first character
\* it had made a GT or LT token.
SplitOperator(s, pos) ==
    /\ pos >= 1
    /\ CharAt(s, pos + 1) = "="
    /\ CharAt(s, pos) \in {">", "<"}
    /\ tokenize(SubSeq(s, 1, pos)).ok
    /\ LastTokenBefore(s, pos).type \in {"GT", "LT"}

\* C14: when tokenize returns, its comparison tokens are, in order, the
\* operators written outside string literals, every >=, <=, == and != being
\* one GTE, LTE, EQ, NEQ token; when it fails, it does not fail on the = of a
\* >= or <= after a GT or LT token.
C14_LongestOperatorFirst ==
    TokenizeRan =>
        IF ec_tokens.ok
        THEN OperatorTokens(ec_tokens.tokens) = OperatorsFrom(ec_condition, 1, "")
        ELSE ~SplitOperator(ec_condition, ec_tokens.pos)

\* >= and <= written without spaces and next to >= inside a string literal.
C14_Witness ==
    /\ ec_condition = "size_mm >=62 AND size_mm<= 70"
    /\ TokenizeRan
    /\ ec_tokens.ok
    /\ TypesOf(ec_tokens.tokens)
         = <<"IDENTIFIER", "GTE", "NUMBER", "AND", "IDENTIFIER", "LTE", "NUMBER", "EOF">>
    /\ OperatorTokens(tokenize("color == '>='").tokens) = <<"EQ">>

\* tokenize has raised.
TokenizeRaised == TokenizeRan /\ ~ec_tokens.ok

\* The offset of the failure is the first one the scan cannot pass: the text
\* before it is tokenized without a failure and no pattern matches at it.
FirstUnmatched(s, pos) ==
    /\ pos < Len(s)
    /\ tokenize(SubSeq(s, 1, pos)).ok
    /\ FirstPattern(Slice(s, pos + 1), 1) = 0

\* evaluate_condition ends with the exception of tokenize: the caller has no
\* tokens and the parser never ran.
NoTokens ==
    /\ ec_tokens.tokens = <<>>
    /\ ec_pc = "raised"
    /\ ec_ast = ParseError("", 0)

DigitText(d) ==
    CASE d = 0 -> "0" [] d = 1 -> "1" [] d = 2 -> "2" [] d = 3 -> "3" [] d = 4 -> "4"
      [] d = 5 -> "5" [] d = 6 -> "6" [] d = 7 -> "7" [] d = 8 -> "8" [] d = 9 -> "9"

RECURSIVE IntText(_)
IntText(n) == IF n < 10 THEN DigitText(n) ELSE IntText(n \div 10) \o DigitText(n % 10)

\* The last width digits of n
RECURSIVE FractionText(_, _)
FractionText(n, width) ==
    IF width = 0 THEN "" ELSE FractionText(n \div 10, width - 1) \o DigitText(n % 10)

UnsignedText(m, e) ==
    IntText(m \div Pow10(e)) \o
    (IF e = 0 THEN "" ELSE "." \o FractionText(m % Pow10(e), e))

NumberText(v) ==
    IF v.m < 0 THEN "-" \o UnsignedText(0 - v.m, v.e) ELSE UnsignedText(v.m, v.e)

Contains(s, c) == \E i \in 1..Len(s) : CharAt(s, i) = c

StringText(s) == IF Contains(s, "'") THEN "\"" \o s \o "\"" ELSE "'" \o s \o "'"

LiteralText(v) ==
    CASE v.t = "num"  -> NumberText(v)
      [] v.t = "str"  -> StringText(v.s)
      [] v.t = "bool" -> IF v.b THEN "true" ELSE "false"

OperatorText(op) ==
    CASE op = "EQ" -> "==" [] op = "NEQ" -> "!=" [] op = "GT" -> ">" [] op = "GTE" -> ">="
      [] op = "LT" -> "<" [] op = "LTE" -> "<=" [] op = "AND" -> "AND" [] op = "OR" -> "OR"

IsAtomNode(node) == node.type \in {"LiteralNode", "IdentifierNode"}

RECURSIVE Serialise(_)

InParentheses(node) == "(" \o Serialise(node) \o ")"

\* An operand of a comparison: an atom, or a group.
OperandText(node) == IF IsAtomNode(node) THEN Serialise(node) ELSE InParentheses(node)

\* The left operand of AND or OR: a group when it is an OR under an AND.
LeftText(node, op) ==
    IF node.type = "BinaryOpNode" /\ node.op = "OR" /\ op = "AND"
    THEN InParentheses(node) ELSE Serialise(node)

\* The right operand of AND or OR: a group when the operator would
\* otherwise take it apart (a chain associates to the left).
RightText(node, op) ==
    IF node.type = "BinaryOpNode" /\ (op = "AND" \/ node.op = "OR")
    THEN InParentheses(node) ELSE Serialise(node)

Serialise(node) ==
    CASE node.type = "LiteralNode"    -> LiteralText(node.value)
      [] node.type = "IdentifierNode" -> node.name
      [] node.type = "ComparisonNode" ->
             OperandText(node.left) \o " " \o OperatorText(node.op) \o " "
               \o OperandText(node.right)
      [] node.type = "BinaryOpNode"   ->
             LeftText(node.left, node.op) \o " " \o OperatorText(node.op) \o " "
               \o RightText(node.right, node.op)

\* tokenize and parse of a condition text
Reparsed(text) == parse(tokenize(text).tokens)

\* C16: when a condition parses, the text serialised from its AST is
\* tokenized without a failure and parses to a structurally equal AST.
C16_RoundTrip ==
    (ParseRan /\ ec_ast.ok) =>
        /\ tokenize(Serialise(Ast)).ok
        /\ Reparsed(Serialise(Ast)).ok
        /\ Reparsed(Serialise(Ast)).node = Ast

\* A condition whose grouping needs its parentheses and whose string holds a
\* single quote: the text differs from the condition in spacing and numerals
\* and parses to the same AST.
C16_Witness ==
    /\ ec_condition = "flag AND (size_mm > 50 OR missing)"
    /\ ParseRan
    /\ ec_ast.ok
    /\ Serialise(Ast) = "flag AND (size_mm > 50 OR missing)"
    /\ Serialise(Reparsed("(flag AND color == 'red') OR size_mm > 50").node)
         = "flag AND color == 'red' OR size_mm > 50"
    /\ Serialise(Reparsed("color == \"it's\"").node) = "color == \"it's\""
    /\ Serialise(Reparsed("size_mm<0.50").node) = "size_mm < 0.5"

\* ------------------------------------------------------------------------
\* Frame of evaluate, evaluate_condition and evaluate_policy
\* ------------------------------------------------------------------------

\* evaluate_condition is running.
InCall == ec_pc \in {"tokenize", "parse", "evaluate"}

\* C18: evaluate and evaluate_condition never modify the context or the AST
\* they are given, and evaluate_policy never modifies the policy: the rules
\* of policy.decision_rules and their order are the same after every step
\* (sorted_rules is another list), and evaluate_condition is given the
\* context evaluate_policy built, which is the same after every rule.
C18_Frame ==
    /\ [][policy' = policy]_vars
    /\ [][InCall => ec_context' = ec_context]_vars
    /\ [][ec_pc = "evaluate" => ec_ast' = ec_ast]_vars
    /\ [][pc = "scanning" => context' = context]_vars
    /\ []((pc = "scanning" /\ ec_pc # "idle") => ec_context = context)

\* A policy whose rules are listed out of priority order has been evaluated
\* to a match on a condition that reads a fact: sorted_rules is in another
\* order than policy.decision_rules.
C18_Witness ==
    /\ pc = "matched"
    /\ Len(Rules) = 2
    /\ Rules[1].priority > Rules[2].priority
    /\ sorted_rules = <<Rules[2], Rules[1]>>
    /\ ec_out.calls # <<>>
    /\ ec_context = BuildContext(classification, defects)

\* ------------------------------------------------------------------------
\* Concurrent invocations
\* ------------------------------------------------------------------------

\* What the invocation of caller c returns when it runs alone.
Alone(c) ==
    IF Me(c).kind = "policy"
    THEN evaluate_policy(Me(c).classification, Me(c).defects, Me(c).policy)
    ELSE evaluate_condition(Me(c).ec_condition, Me(c).context)

\* C19: under every interleaving of two invocations of evaluate_policy and
\* evaluate_condition, on equal or on different policies and contexts, each
\* invocation returns what it returns when run alone.
C19_NoInterference ==
    \A c \in Callers : Me(c).pc = "returned" => Me(c).result = Alone(c)

\* An evaluate_policy and an evaluate_condition have both returned, each
\* having taken steps while the other was in the middle of its call; one
\* matched its second rule after a failing first one, the other returned True.
C19_Witness ==
    /\ \A c \in Callers : Me(c).pc = "returned" /\ Me(c).interleaved
    /\ Me(1).kind = "policy"
    /\ Len(Me(1).policy.decision_rules) = 2
    /\ Me(1).policy.decision_rules[1].condition = "size_mm >>"
    /\ Me(1).result.decision.rule_id = "R2"
    /\ Me(2).kind = "condition"
    /\ Me(2).result = Converted(Bool(TRUE))

\* ------------------------------------------------------------------------
\* The fields of the Decision
\* ------------------------------------------------------------------------

\* The Decision carries the fields of rule i of the policy.
CarriesRule(d, i) ==
    /\ d.rule_id = Rules[i].id
    /\ d.action = Rules[i].action
    /\ d.target_bin = Rules[i].target_bin
    /\ d.rule_condition = Rules[i].condition
    /\ d.source = Rules[i].source

\* C20: a Decision of a match has the action, target_bin, id, condition and
\* source of the rule that matched, the rule evaluated last and to true; a
\* matched and a default Decision alike have the confidence of the input
\* classification.
C20_DecisionCarriesRule ==
    Terminal =>
        /\ Len(decisions) = 1
        /\ decisions[1].confidence = classification.confidence
        /\ pc = "matched" =>
               \E i \in TrueRules :
                   /\ Rules[i].id = visits[Len(visits)]
                   /\ CarriesRule(decisions[1], i)

\* A match of the second rule listed, a rule with a document source, for a
\* classification of confidence 0.9.
C20_Witness ==
    /\ pc = "matched"
    /\ classification.confidence = Num(9, 1)
    /\ decisions[1] = [target_bin |-> "REJECT_BIN", action |-> "REJECT", rule_id |-> "R2",
                        rule_condition |-> "defect_detected == true",
                        source |-> DocumentSource("qa.pdf", 1),
                        confidence |-> Num(9, 1)]

\* ------------------------------------------------------------------------
\* Policy tools: check_safety, validate_policy, diff_policies
\* ------------------------------------------------------------------------

\* The condition engine takes no part in the services below.
EngineOff ==
    /\ classification \in { c \in Classifications :
                              c.color = Str("red") /\ c.confidence = Num(4, 1) }
    /\ defects \in { d \in DefectInspections : ~d.defect_detected.b }
    /\ policy = [decision_rules |-> <<>>,
                 default_action |-> [action |-> "MANUAL_REVIEW", target_bin |-> "REVIEW_BIN"]]
    /\ PolicyIdle
    /\ pc = "off"
    /\ EcIdle
    /\ ConcIdle

\* Bound of the safety constraints of a policy.
MaxConstraints == 2

SafetyConstraint(id, parameter, operator, value, unit, source) ==
    [id |-> id, parameter |-> parameter, operator |-> operator, value |-> value,
     unit |-> unit, source |-> source]

Operators == {"<=", ">=", "==", "<", ">"}

\* ops.get(constraint.operator, lambda v, t: True)(v, t)
Check(operator, v, t) ==
    CASE operator = "<=" -> ~NumLess(t, v)
      [] operator = ">=" -> ~NumLess(v, t)
      [] operator = "==" -> v = t
      [] operator = "<"  -> NumLess(v, t)
      [] operator = ">"  -> NumLess(t, v)
      [] OTHER           -> TRUE

\* str(x) of a float x: a whole number is written with ".0"
FloatStr(v) ==
    (IF v.m < 0 THEN "-" ELSE "") \o
    (IF v.e = 0 THEN IntText(IF v.m < 0 THEN 0 - v.m ELSE v.m) \o ".0"
     ELSE UnsignedText(IF v.m < 0 THEN 0 - v.m ELSE v.m, v.e))

\* constraint.source.document_name if constraint.source else 'unknown'
Provenance(constraint) ==
    IF constraint.source.none THEN "unknown" ELSE constraint.source.document_name

\* The f-string check_safety returns with False.
SafetyViolation(command, value, constraint) ==
    "Safety violation: " \o command \o "=" \o FloatStr(value) \o " violates "
    \o constraint.parameter \o " " \o constraint.operator \o " "
    \o FloatStr(constraint.value) \o constraint.unit
    \o " (from " \o Provenance(constraint) \o ")"

\* The loop of check_safety, but the first constraint on the command decides.
RECURSIVE FirstMatchDecides(_, _, _, _)
FirstMatchDecides(command, value, constraints, k) ==
    IF k > Len(constraints) THEN [ok |-> TRUE, message |-> "OK"]
    ELSE IF constraints[k].parameter = command
    THEN IF Check(constraints[k].operator, value, constraints[k].value)
         THEN [ok |-> TRUE, message |-> "OK"]
         ELSE [ok |-> FALSE, message |-> SafetyViolation(command, value, constraints[k])]
    ELSE FirstMatchDecides(command, value, constraints, k + 1)

\* The loop of check_safety from constraint k on: the first constraint on
\* the command that does not hold returns False with its message.
RECURSIVE CheckFrom(_, _, _, _)
CheckFrom(command, value, constraints, k) ==
    IF k > Len(constraints) THEN [ok |-> TRUE, message |-> "OK"]
    ELSE IF constraints[k].parameter = command
            /\ ~Check(constraints[k].operator, value, constraints[k].value)
    THEN [ok |-> FALSE, message |-> SafetyViolation(command, value, constraints[k])]
    ELSE CheckFrom(command, value, constraints, k + 1)

check_safety(command, value, p) == CheckFrom(command, value, p.safety_constraints, 1)

\* The constraints the policies are drawn from: every operator on speed_pct,
\* with and without provenance, and one constraint on another parameter.
ConstraintTemplates ==
    { [parameter |-> "speed_pct", operator |-> o, value |-> Num(80, 0), unit |-> "%",
       source |-> s] :
        o \in Operators, s \in {NoSource, DocumentSource("safety.pdf", 3)} }
    \cup { [parameter |-> "grip_force_n", operator |-> "<=", value |-> Num(15, 0),
            unit |-> "N", source |-> NoSource] }

ConstraintIds == <<"SAFETY_001", "SAFETY_002", "SAFETY_003">>

ConstraintLists(n) ==
    { [k \in 1..n |-> SafetyConstraint(ConstraintIds[k], f[k].parameter, f[k].operator,
                                       f[k].value, f[k].unit, f[k].source)] :
        f \in [1..n -> ConstraintTemplates] }

SafetyCommands == {"speed_pct", "grip_force_n"}

SafetyValues == {Num(85, 0), Num(80, 0), Num(125, 1)}

SafetyCalls ==
    { [command |-> c, value |-> v, policy |-> [safety_constraints |-> l]] :
        c \in SafetyCommands, v \in SafetyValues,
        l \in UNION { ConstraintLists(n) : n \in 0..MaxConstraints } }

\* ok, message = check_safety(command, value, policy)
CheckSafety ==
    /\ tool = "check_safety"
    /\ tool_pc = "called"
    /\ tool_result' = check_safety(tool_args.command, tool_args.value, tool_args.policy)
    /\ tool_pc' = "returned"
    /\ UNCHANGED <<tool, tool_args>>
    /\ UNCHANGED <<engine_vars, lex_vars, dual_vars, store_vars, ws_vars>>

SafetyInit ==
    /\ EngineOff
    /\ tool = "check_safety"
    /\ tool_args \in SafetyCalls
    /\ tool_pc = "called"
    /\ tool_result = <<>>
    /\ LexIdle /\ DualIdle /\ StoreIdle /\ WsIdle

SafetyNext == CheckSafety

SafetySpec == SafetyInit /\ [][SafetyNext]_vars

\* ------------------------------------------------------------------------
\* Properties of check_safety
\* ------------------------------------------------------------------------

SafetyReturned == tool = "check_safety" /\ tool_pc = "returned"

\* A number in tenths, as an integer.
Tenths(v) == v.m * Pow10(1 - v.e)

\* value <operator> threshold
Holds(operator, value, threshold) ==
    CASE operator = "<=" -> Tenths(value) <= Tenths(threshold)
      [] operator = ">=" -> Tenths(value) >= Tenths(threshold)
      [] operator = "==" -> Tenths(value) = Tenths(threshold)
      [] operator = "<"  -> Tenths(value) < Tenths(threshold)
      [] operator = ">"  -> Tenths(value) > Tenths(threshold)

\* The positions of the constraints on the command that the value violates.
Violated(args) ==
    { k \in 1..Len(args.policy.safety_constraints) :
        /\ args.policy.safety_constraints[k].parameter = args.command
        /\ ~Holds(args.policy.safety_constraints[k].operator, args.value,
                  args.policy.safety_constraints[k].value) }

\* part occurs in text
Occurs(part, text) ==
    \E i \in 1..(Len(text) - Len(part) + 1) : SubSeq(text, i, i + Len(part) - 1) = part

\* The message names the command value and constraint c with its provenance.
Names(message, args, c) ==
    /\ Occurs(args.command \o "=" \o FloatStr(args.value), message)
    /\ Occurs(c.parameter \o " " \o c.operator \o " " \o FloatStr(c.value), message)
    /\ ~c.source.none => Occurs("(from " \o c.source.document_name \o ")", message)

\* C21: check_safety fails exactly when some constraint whose parameter is
\* the command has "value operator threshold" false; otherwise (no constraint
\* names the command, or all that do hold) it returns (True, "OK"); on failure
\* the message names the command value and a violated constraint's
\* parameter, operator, threshold and the document name of its source.
C21_CheckSafety ==
    SafetyReturned =>
        /\ ~tool_result.ok <=> Violated(tool_args) # {}
        /\ tool_result.ok => tool_result.message = "OK"
        /\ ~tool_result.ok =>
               \E k \in Violated(tool_args) :
                   Names(tool_result.message, tool_args,
                         tool_args.policy.safety_constraints[k])

\* Scenario F, behind a constraint on the same parameter that holds:
\* speed_pct = 85 against speed_pct >= 80 and speed_pct <= 80 from safety.pdf.
C21_Witness ==
    /\ SafetyReturned
    /\ tool_args.command = "speed_pct"
    /\ tool_args.value = Num(85, 0)
    /\ Len(tool_args.policy.safety_constraints) = 2
    /\ tool_args.policy.safety_constraints[1].operator = ">="
    /\ tool_args.policy.safety_constraints[2].operator = "<="
    /\ ~tool_args.policy.safety_constraints[2].source.none
    /\ ~tool_result.ok
    /\ tool_result.message =
         "Safety violation: speed_pct=85.0 violates speed_pct <= 80.0% (from safety.pdf)"

\* ------------------------------------------------------------------------
\* validate_policy
\* ------------------------------------------------------------------------

\* Bound of len(policy.decision_rules) in the policies validated; coverage
\* saturates at five rules.
MaxRuleCount == 6

\* severity = "WARNING" whatever it was.
AlwaysWarning(severity) == "WARNING"

\* if severity != "CRITICAL": severity = "WARNING"
Escalate(severity) == IF severity # "CRITICAL" THEN "WARNING" ELSE severity

\* missing and severity after each of the four checks of validate_policy
Started == [missing |-> <<>>, severity |-> "OK"]

CheckedRules(p, v) ==
    IF Len(p.decision_rules) = 0
    THEN [missing |-> Append(v.missing, "no_decision_rules"), severity |-> "CRITICAL"]
    ELSE v

CheckedSafety(p, v) ==
    IF Len(p.safety_constraints) = 0
    THEN [missing |-> Append(v.missing, "no_safety_constraints"),
          severity |-> Escalate(v.severity)]
    ELSE v

CheckedVision(p, v) ==
    IF p.vision_instructions = {}
    THEN [missing |-> Append(v.missing, "no_vision_instructions"),
          severity |-> Escalate(v.severity)]
    ELSE v

CheckedCriteria(p, v) ==
    IF Len(p.inspection_criteria) = 0
    THEN [missing |-> Append(v.missing, "no_inspection_criteria"), severity |-> v.severity]
    ELSE v

\* round(min(rule_count / 5.0, 1.0), 2)
Coverage(rule_count) == IF rule_count >= 5 THEN Num(1, 0) ELSE Num(2 * rule_count, 1)

PolicyValidation(p, v) ==
    [is_complete |-> v.severity # "CRITICAL",
     missing_elements |-> v.missing,
     severity |-> v.severity,
     coverage_pct |-> Coverage(Len(p.decision_rules)),
     ambiguities |-> <<>>,
     conflicts |-> p.conflicts,
     recommendations |-> <<>>]

validate_policy(p) ==
    PolicyValidation(p,
        CheckedCriteria(p, CheckedVision(p, CheckedSafety(p, CheckedRules(p, Started)))))

\* n rules R1..Rn
NumberedRules(n) ==
    [k \in 1..n |->
        DecisionRule("R" \o IntText(k), k,
                     [condition |-> "defect_detected == true", action |-> "REJECT",
                      target_bin |-> "REJECT_BIN", source |-> NoSource])]

\* The policies validated: the keys of vision_instructions stand for the dict.
ValidatedPolicies ==
    { [decision_rules |-> NumberedRules(n), safety_constraints |-> s,
       vision_instructions |-> v, inspection_criteria |-> c, conflicts |-> <<>>] :
        n \in 0..MaxRuleCount,
        s \in ConstraintLists(0) \cup
              { <<SafetyConstraint("SAFETY_001", "speed_pct", "<=", Num(80, 0), "%", NoSource)>> },
        v \in SUBSET {"classify", "defect"},
        c \in { <<>>, <<"IC_001">> } }

\* validation = validate_policy(policy)
ValidatePolicy ==
    /\ tool = "validate_policy"
    /\ tool_pc = "called"
    /\ tool_result' = validate_policy(tool_args.policy)
    /\ tool_pc' = "returned"
    /\ UNCHANGED <<tool, tool_args>>
    /\ UNCHANGED <<engine_vars, lex_vars, dual_vars, store_vars, ws_vars>>

ValidateInit ==
    /\ EngineOff
    /\ tool = "validate_policy"
    /\ tool_args \in { [policy |-> p] : p \in ValidatedPolicies }
    /\ tool_pc = "called"
    /\ tool_result = <<>>
    /\ LexIdle /\ DualIdle /\ StoreIdle /\ WsIdle

ValidateNext == ValidatePolicy

ValidateSpec == ValidateInit /\ [][ValidateNext]_vars

\* ------------------------------------------------------------------------
\* Properties of validate_policy
\* ------------------------------------------------------------------------

Validated == tool = "validate_policy" /\ tool_pc = "returned"

Listed(element, elements) == \E k \in 1..Len(elements) : elements[k] = element

\* C22: the severity is CRITICAL exactly when decision_rules is empty;
\* otherwise WARNING exactly when safety_constraints or vision_instructions
\* is empty; otherwise OK; empty inspection_criteria is listed as missing but
\* plays no part in the severity, and is_complete is false exactly when the
\* severity is CRITICAL.
C22_ValidationSeverity ==
    Validated =>
        /\ tool_result.severity \in {"OK", "WARNING", "CRITICAL"}
        /\ tool_result.severity = "CRITICAL" <=> Len(tool_args.policy.decision_rules) = 0
        /\ Len(tool_args.policy.decision_rules) > 0 =>
               (tool_result.severity = "WARNING" <=>
                    \/ Len(tool_args.policy.safety_constraints) = 0
                    \/ tool_args.policy.vision_instructions = {})
        /\ Listed("no_inspection_criteria", tool_result.missing_elements)
               <=> Len(tool_args.policy.inspection_criteria) = 0
        /\ ~tool_result.is_complete <=> tool_result.severity = "CRITICAL"

\* A policy without rules, constraints and inspection criteria is CRITICAL
\* and incomplete.
C22_Witness ==
    /\ Validated
    /\ Len(tool_args.policy.decision_rules) = 0
    /\ Len(tool_args.policy.safety_constraints) = 0
    /\ tool_args.policy.vision_instructions # {}
    /\ Len(tool_args.policy.inspection_criteria) = 0
    /\ tool_result.severity = "CRITICAL"
    /\ ~tool_result.is_complete
    /\ tool_result.missing_elements =
         <<"no_decision_rules", "no_safety_constraints", "no_inspection_criteria">>

\* ------------------------------------------------------------------------
\* diff_policies
\* ------------------------------------------------------------------------

\* Bound of the rule and constraint lists of the policies compared.
MaxDiffLen == 2

\* A dict is the list of its items in insertion order.
DictHas(d, key) == \E i \in 1..Len(d) : d[i].key = key

DictGet(d, key) == d[CHOOSE i \in 1..Len(d) : d[i].key = key].value

\* d[key] = value: a key already there keeps its place and takes the value.
DictPut(d, key, value) ==
    IF DictHas(d, key)
    THEN [i \in 1..Len(d) |-> IF d[i].key = key THEN [key |-> key, value |-> value]
                              ELSE d[i]]
    ELSE Append(d, [key |-> key, value |-> value])

\* {item.key: item.value for item in items[1..n]}
RECURSIVE DictOf(_, _)
DictOf(items, n) ==
    IF n = 0 THEN <<>>
    ELSE DictPut(DictOf(items, n - 1), items[n].key, items[n].value)

\* {r.id: r for r in rules}
RulesById(rules) ==
    DictOf([k \in 1..Len(rules) |-> [key |-> rules[k].id, value |-> rules[k]]], Len(rules))

\* {c.parameter: c for c in constraints}
SafetyByParameter(constraints) ==
    DictOf([k \in 1..Len(constraints) |->
               [key |-> constraints[k].parameter, value |-> constraints[k]]],
           Len(constraints))

\* PolicyDiff without its impact text, which renders the same fields;
\* affected_bins as a set (the code lists a set in one branch).
PolicyDiff(diff_type, rule_id, old_value, new_value, source_old, source_new, bins) ==
    [diff_type |-> diff_type, rule_id |-> rule_id, old_value |-> old_value,
     new_value |-> new_value, source_old |-> source_old, source_new |-> source_new,
     affected_bins |-> bins]

\* The body of the loop over new_rules.items() for one item.
NewRuleDiffs(old_rules, rule_id, new_rule) ==
    IF ~DictHas(old_rules, rule_id)
    THEN <<PolicyDiff("RULE_ADDED", rule_id, "", new_rule.condition, NoSource,
                      new_rule.source, {new_rule.target_bin})>>
    ELSE IF DictGet(old_rules, rule_id).condition # new_rule.condition
    THEN <<PolicyDiff("RULE_MODIFIED", rule_id, DictGet(old_rules, rule_id).condition,
                      new_rule.condition, DictGet(old_rules, rule_id).source,
                      new_rule.source,
                      {DictGet(old_rules, rule_id).target_bin, new_rule.target_bin})>>
    ELSE IF DictGet(old_rules, rule_id).target_bin # new_rule.target_bin
    THEN <<PolicyDiff("RULE_MODIFIED", rule_id, DictGet(old_rules, rule_id).target_bin,
                      new_rule.target_bin, DictGet(old_rules, rule_id).source,
                      new_rule.source,
                      {DictGet(old_rules, rule_id).target_bin, new_rule.target_bin})>>
    ELSE <<>>

\* The body of the loop over old_rules for one key.
OldRuleDiffs(new_rules, rule_id, old_rule) ==
    IF ~DictHas(new_rules, rule_id)
    THEN <<PolicyDiff("RULE_REMOVED", rule_id, old_rule.condition, "", old_rule.source,
                      NoSource, {old_rule.target_bin})>>
    ELSE <<>>

\* The body of the loop over new_safety.items() for one item.
SafetyDiffs(old_safety, param, new_c) ==
    IF DictHas(old_safety, param) /\ DictGet(old_safety, param).value # new_c.value
    THEN <<PolicyDiff("THRESHOLD_CHANGED", "safety_" \o param,
                      FloatStr(DictGet(old_safety, param).value), FloatStr(new_c.value),
                      NoSource, new_c.source, {})>>
    ELSE <<>>

\* The diffs appended by the first n items of each of the three loops.
RECURSIVE AddedOrModified(_, _, _)
AddedOrModified(old_rules, new_rules, n) ==
    IF n = 0 THEN <<>>
    ELSE AddedOrModified(old_rules, new_rules, n - 1)
         \o NewRuleDiffs(old_rules, new_rules[n].key, new_rules[n].value)

RECURSIVE Removed(_, _, _)
Removed(old_rules, new_rules, n) ==
    IF n = 0 THEN <<>>
    ELSE Removed(old_rules, new_rules, n - 1)
         \o OldRuleDiffs(new_rules, old_rules[n].key, old_rules[n].value)

RECURSIVE ThresholdChanged(_, _, _)
ThresholdChanged(old_safety, new_safety, n) ==
    IF n = 0 THEN <<>>
    ELSE ThresholdChanged(old_safety, new_safety, n - 1)
         \o SafetyDiffs(old_safety, new_safety[n].key, new_safety[n].value)

DiffOfDicts(old_rules, new_rules, old_safety, new_safety) ==
    AddedOrModified(old_rules, new_rules, Len(new_rules))
    \o Removed(old_rules, new_rules, Len(old_rules))
    \o ThresholdChanged(old_safety, new_safety, Len(new_safety))

diff_policies(old, new) ==
    DiffOfDicts(RulesById(old.decision_rules), RulesById(new.decision_rules),
                SafetyByParameter(old.safety_constraints),
                SafetyByParameter(new.safety_constraints))

\* The rules and constraints of the old policies, and those of the new ones:
\* the same, and each with its condition, bin, threshold or operator changed.
DiffRuleIds == {"R1", "R2"}

OldRules ==
    { DecisionRule(id, 1, [condition |-> "color == 'red'", action |-> "SORT",
                           target_bin |-> "BIN_A", source |-> NoSource]) :
        id \in DiffRuleIds }

NewRules ==
    { DecisionRule(id, 1, [condition |-> c, action |-> "SORT", target_bin |-> b,
                           source |-> NoSource]) :
        id \in DiffRuleIds, c \in {"color == 'red'", "color == 'blue'"},
        b \in {"BIN_A", "BIN_B"} }

OldConstraints ==
    { SafetyConstraint("S", p, o[1], o[2], "", NoSource) :
        p \in SafetyCommands, o \in { <<"<=", Num(80, 0)>>, <<">=", Num(70, 0)>> } }

NewConstraints ==
    { SafetyConstraint("S", p, o, v, "", NoSource) :
        p \in SafetyCommands, o \in {"<=", ">="}, v \in {Num(80, 0), Num(70, 0)} }

ListsOf(S, n) == UNION { [1..k -> S] : k \in 0..n }

DiffedPolicy(rules, constraints) ==
    [decision_rules |-> rules, safety_constraints |-> constraints]

\* Either the rules differ under the same constraint, or the constraints
\* differ under the same rule; the lists have up to n entries.
DiffCalls(n) ==
    { [old |-> DiffedPolicy(r, <<SafetyConstraint("S", "speed_pct", "<=", Num(80, 0), "", NoSource)>>),
       new |-> DiffedPolicy(s, <<SafetyConstraint("S", "speed_pct", "<=", Num(80, 0), "", NoSource)>>)] :
        r \in ListsOf(OldRules, n), s \in ListsOf(NewRules, n) }
    \cup
    { [old |-> DiffedPolicy(NumberedRules(1), c), new |-> DiffedPolicy(NumberedRules(1), d)] :
        c \in ListsOf(OldConstraints, n), d \in ListsOf(NewConstraints, n) }

\* diffs = diff_policies(old, new)
DiffPolicies ==
    /\ tool = "diff_policies"
    /\ tool_pc = "called"
    /\ tool_result' = diff_policies(tool_args.old, tool_args.new)
    /\ tool_pc' = "returned"
    /\ UNCHANGED <<tool, tool_args>>
    /\ UNCHANGED <<engine_vars, lex_vars, dual_vars, store_vars, ws_vars>>

DiffInit ==
    /\ EngineOff
    /\ tool = "diff_policies"
    /\ tool_args \in DiffCalls(MaxDiffLen)
    /\ tool_pc = "called"
    /\ tool_result = <<>>
    /\ LexIdle /\ DualIdle /\ StoreIdle /\ WsIdle

DiffNext == DiffPolicies

DiffSpec == DiffInit /\ [][DiffNext]_vars

\* ------------------------------------------------------------------------
\* Properties of diff_policies
\* ------------------------------------------------------------------------

Diffed == tool = "diff_policies" /\ tool_pc = "returned"

\* The positions of the diffs of one type about one rule id.
DiffsAbout(diffs, diff_type, rule_id) ==
    { k \in 1..Len(diffs) : diffs[k].diff_type = diff_type /\ diffs[k].rule_id = rule_id }

\* The rules of a list that carry the id.
WithId(rules, id) == { k \in 1..Len(rules) : rules[k].id = id }

TheRule(rules, id) == rules[CHOOSE k \in WithId(rules, id) : TRUE]

\* The number of the fields condition and target_bin in which two rules differ.
ChangedFields(a, b) ==
    (IF a.condition # b.condition THEN 1 ELSE 0)
    + (IF a.target_bin # b.target_bin THEN 1 ELSE 0)

\* C23: for a rule id that both policies carry (once each), the number of
\* RULE_MODIFIED diffs about it is the number of the fields condition and
\* target_bin that changed: two when both changed, one when one changed,
\* none when neither changed.
C23_OneDiffPerChangedField ==
    Diffed =>
        \A id \in DiffRuleIds :
            (/\ Cardinality(WithId(tool_args.old.decision_rules, id)) = 1
             /\ Cardinality(WithId(tool_args.new.decision_rules, id)) = 1)
            => Cardinality(DiffsAbout(tool_result, "RULE_MODIFIED", id))
                 = ChangedFields(TheRule(tool_args.old.decision_rules, id),
                                 TheRule(tool_args.new.decision_rules, id))

\* Rule R1 has a new condition and a new bin, and one RULE_MODIFIED diff,
\* about the condition, is all that is reported.
C23_Reached ==
    /\ Diffed
    /\ Len(tool_args.old.decision_rules) = 1
    /\ Len(tool_args.new.decision_rules) = 1
    /\ tool_args.old.decision_rules[1].id = "R1"
    /\ tool_args.new.decision_rules[1].id = "R1"
    /\ ChangedFields(tool_args.old.decision_rules[1], tool_args.new.decision_rules[1]) = 2
    /\ Len(tool_result) = 1
    /\ tool_result[1].diff_type = "RULE_MODIFIED"
    /\ tool_result[1].old_value = "color == 'red'"
    /\ tool_result[1].new_value = "color == 'blue'"

RuleIdsOf(rules) == { rules[k].id : k \in 1..Len(rules) }

ParametersOf(constraints) == { constraints[k].parameter : k \in 1..Len(constraints) }

\* The thresholds a policy puts on a parameter.
ValuesOn(constraints, param) ==
    { constraints[k].value :
        k \in { j \in 1..Len(constraints) : constraints[j].parameter = param } }

\* C24: a rule id only in the new policy yields exactly one RULE_ADDED diff,
\* a rule id only in the old policy exactly one RULE_REMOVED diff, no other
\* id yields either; a safety parameter that both policies constrain yields
\* a THRESHOLD_CHANGED diff exactly when the thresholds on it differ; a
\* policy diffed against itself yields the empty list.
C24_AddedRemovedThreshold ==
    Diffed =>
        /\ \A id \in DiffRuleIds :
               /\ Cardinality(DiffsAbout(tool_result, "RULE_ADDED", id))
                    = IF id \in RuleIdsOf(tool_args.new.decision_rules)
                             \ RuleIdsOf(tool_args.old.decision_rules)
                      THEN 1 ELSE 0
               /\ Cardinality(DiffsAbout(tool_result, "RULE_REMOVED", id))
                    = IF id \in RuleIdsOf(tool_args.old.decision_rules)
                             \ RuleIdsOf(tool_args.new.decision_rules)
                      THEN 1 ELSE 0
        /\ \A param \in ParametersOf(tool_args.old.safety_constraints)
                        \cap ParametersOf(tool_args.new.safety_constraints) :
               DiffsAbout(tool_result, "THRESHOLD_CHANGED", "safety_" \o param) # {}
                   <=> ValuesOn(tool_args.old.safety_constraints, param)
                         # ValuesOn(tool_args.new.safety_constraints, param)
        /\ tool_args.old = tool_args.new => tool_result = <<>>

\* The old policy bounds speed_pct by <= 80 and >= 70, the new one by <= 70
\* and >= 70: the upper threshold changed and no diff is reported.
C24_Reached ==
    /\ Diffed
    /\ Len(tool_args.old.safety_constraints) = 2
    /\ Len(tool_args.new.safety_constraints) = 2
    /\ ParametersOf(tool_args.old.safety_constraints) = {"speed_pct"}
    /\ ParametersOf(tool_args.new.safety_constraints) = {"speed_pct"}
    /\ tool_args.old.safety_constraints[1].operator = "<="
    /\ tool_args.old.safety_constraints[1].value = Num(80, 0)
    /\ tool_args.new.safety_constraints[1].operator = "<="
    /\ tool_args.new.safety_constraints[1].value = Num(70, 0)
    /\ tool_args.old.safety_constraints[2] = tool_args.new.safety_constraints[2]
    /\ tool_result = <<>>

\* ------------------------------------------------------------------------
\* Properties of the ASTs Parser.parse returns
\* ------------------------------------------------------------------------

\* The nodes of an AST.
RECURSIVE NodesOf(_)
NodesOf(node) ==
    IF node.type \in {"ComparisonNode", "BinaryOpNode"}
    THEN {node} \cup NodesOf(node.left) \cup NodesOf(node.right)
    ELSE {node}

ComparisonsOf(node) == { n \in NodesOf(node) : n.type = "ComparisonNode" }

Atomic(node) == node.type \in {"LiteralNode", "IdentifierNode"}

\* The positions of the comparison operators that an opening parenthesis
\* follows at once.
OperandsInParentheses(tokens) ==
    { k \in 1..(Len(tokens) - 1) :
        tokens[k].type \in CmpTokens /\ tokens[k + 1].type = "LPAREN" }

\* C25 as stated: every ComparisonNode of a returned AST has a LiteralNode
\* or an IdentifierNode as its left and as its right operand.
C25_OperandsAtomic ==
    (ParseRan /\ ec_ast.ok) =>
        \A n \in ComparisonsOf(ec_ast.node) : Atomic(n.left) /\ Atomic(n.right)

\* C25, amended: the left operand of every ComparisonNode is a LiteralNode
\* or an IdentifierNode, and so is the right operand unless the condition has
\* an opening parenthesis right after a comparison operator; there are no
\* more ComparisonNodes with another right operand than such parentheses.
C25_OperandsAtomicUnlessParenthesised ==
    (ParseRan /\ ec_ast.ok) =>
        /\ \A n \in ComparisonsOf(ec_ast.node) : Atomic(n.left)
        /\ Cardinality({ n \in ComparisonsOf(ec_ast.node) : ~Atomic(n.right) })
             <= Cardinality(OperandsInParentheses(ec_tokens.tokens))

\* true == (color == 'red') is a comparison whose right operand is a
\* comparison.
C25_Witness ==
    /\ ec_condition = "true == (color == 'red')"
    /\ ParsesTo(ComparisonNode(LiteralNode(Bool(TRUE)), "EQ",
                    ComparisonNode(IdentifierNode("color"), "EQ", LiteralNode(Str("red")))))

\* ------------------------------------------------------------------------
\* tokenize, one loop iteration at a time
\* ------------------------------------------------------------------------

\* The strings tokenized: conditions with their operators, parentheses and
\* unmatched characters, and strings that are empty, all whitespace, or
\* begin, end and are separated with runs of blanks, tabs and newlines.
LexInputs ==
    Lexical \cup Grouped \cup Literals
    \cup {"", " ", "   ", "\t\n", " color ", "color  ==\t'red'\n", "a  b", "' '",
          "size_mm > 5 ", " @", "flag AND\n(color == \"a b\")  "}

\* while pos < len(expression): a pattern matches at pos.
LexIteration ==
    /\ lx_pc = "loop"
    /\ lx_pos < Len(lx_expression)
    /\ Lexed(lx_expression, lx_pos, lx_tokens).k # 0
    /\ lx_pos' = Lexed(lx_expression, lx_pos, lx_tokens).pos
    /\ lx_tokens' = Lexed(lx_expression, lx_pos, lx_tokens).tokens
    /\ UNCHANGED <<lx_expression, lx_pc>>
    /\ UNCHANGED <<engine_vars, tool_vars, dual_vars, store_vars, ws_vars>>

\* if not matched: raise SyntaxError
LexRaise ==
    /\ lx_pc = "loop"
    /\ lx_pos < Len(lx_expression)
    /\ Lexed(lx_expression, lx_pos, lx_tokens).k = 0
    /\ lx_pc' = "raised"
    /\ lx_tokens' = Unexpected(lx_pos, lx_tokens).tokens
    /\ UNCHANGED <<lx_expression, lx_pos>>
    /\ UNCHANGED <<engine_vars, tool_vars, dual_vars, store_vars, ws_vars>>

\* The loop condition is false: tokens.append(Token(TokenType.EOF, None));
\* return tokens
LexReturn ==
    /\ lx_pc = "loop"
    /\ lx_pos >= Len(lx_expression)
    /\ lx_tokens' = Append(lx_tokens, Token("EOF", None))
    /\ lx_pc' = "returned"
    /\ UNCHANGED <<lx_expression, lx_pos>>
    /\ UNCHANGED <<engine_vars, tool_vars, dual_vars, store_vars, ws_vars>>

LexInit ==
    /\ EngineOff
    /\ lx_expression \in LexInputs
    /\ lx_pos = 0
    /\ lx_tokens = <<>>
    /\ lx_pc = "loop"
    /\ ToolIdle /\ DualIdle /\ StoreIdle /\ WsIdle

LexNext == LexIteration \/ LexRaise \/ LexReturn

\* tokenize is a synchronous function: once called it runs until it returns
\* or raises.
LexSpec == LexInit /\ [][LexNext]_vars /\ WF_vars(LexNext)

\* ------------------------------------------------------------------------
\* Properties of tokenize's loop
\* ------------------------------------------------------------------------

\* The text an iteration consumed.
Consumed == SubSeq(lx_expression, lx_pos + 1, lx_pos')

\* An iteration that does not fail consumes at least one character and stays
\* within the string; it either consumes whitespace only and leaves the
\* tokens alone, or consumes text that does not begin with whitespace and
\* appends one token for it at the end of the list.
IterationConsumes ==
    (lx_pc = "loop" /\ lx_pc' = "loop") =>
        /\ lx_pos' > lx_pos
        /\ lx_pos' <= Len(lx_expression)
        /\ \/ lx_tokens' = lx_tokens /\ SpanSpace(Consumed) = Len(Consumed)
           \/ /\ Len(lx_tokens') = Len(lx_tokens) + 1
              /\ SubSeq(lx_tokens', 1, Len(lx_tokens)) = lx_tokens
              /\ SpanSpace(Consumed) = 0

\* The characters of a string that are not whitespace.
Solid(s) == { i \in 1..Len(s) : SpanSpace(CharAt(s, i)) = 0 }

\* The returned list has exactly one EOF token, its last element, no token
\* of the whitespace pattern, and no more tokens than the input has
\* characters that are not whitespace.
ReturnedTokens ==
    lx_pc = "returned" =>
        /\ lx_pos = Len(lx_expression)
        /\ { k \in 1..Len(lx_tokens) : lx_tokens[k].type = "EOF" } = {Len(lx_tokens)}
        /\ \A k \in 1..Len(lx_tokens) : lx_tokens[k].type # "SPACE"
        /\ Len(lx_tokens) - 1 <= Cardinality(Solid(lx_expression))

\* C26: tokenize terminates on every input (every iteration that does not
\* fail consumes at least one character), and on success the result holds
\* exactly one EOF token, as its last element, no token for whitespace, and
\* the tokens in input order.
C26_TokenizeTerminates ==
    /\ <>(lx_pc \in {"returned", "raised"})
    /\ [][IterationConsumes]_vars
    /\ []ReturnedTokens

\* "color  ==<tab>'red'<newline>" returned IDENTIFIER, EQ, STRING, EOF.
C26_Witness ==
    /\ lx_expression = "color  ==\t'red'\n"
    /\ lx_pc = "returned"
    /\ TypesOf(lx_tokens) = <<"IDENTIFIER", "EQ", "STRING", "EOF">>

\* ------------------------------------------------------------------------
\* DualAdapter: the Dobot and the simulator driven together
\* ------------------------------------------------------------------------

\* Bound of the commands sent to one DualAdapter.
MaxCommands == 2

Methods == {"pick", "place", "move", "stop"}

\* The exceptions a Dobot call ends with: a refused or timed-out
\* connection, an unknown bin.
DobotExceptions == {"ConnectionRefusedError", "TimeoutError", "KeyError"}

\* What an awaited coroutine ends with: a dict, or an exception.
NoOutcome == [raised |-> FALSE, status |-> "", adapter |-> "", error |-> ""]

ReturnedDict(status, adapter, error) ==
    [raised |-> FALSE, status |-> status, adapter |-> adapter, error |-> error]

RaisedException(e) == [raised |-> TRUE, status |-> "", adapter |-> "", error |-> e]

\* DobotCRAdapter.pick/place/move/stop when the robot answers
DobotAnswer(method) ==
    ReturnedDict(IF method = "stop" THEN "STOPPED" ELSE "OK", "dobot_cr", "")

\* SimulatorAdapter._send: {"status": event.status, "adapter": "simulator"}
SimulatorAnswer == ReturnedDict("OK", "simulator", "")

\* _dobot_call, not self._dobot_live
Skipped == ReturnedDict("SKIPPED", "dobot_cr", "")

\* _dobot_call, except Exception as e: the dict returned
DobotError(e) == ReturnedDict("ERROR", "dobot_cr", e)

\* self._dobot_live is left as it is.
StillLive == TRUE

\* _dobot_call, except Exception: self._dobot_live = False
LiveAfterFailure == FALSE

\* dobot_res, sim_res = await asyncio.gather(...); return {**sim_res,
\* "dobot": dobot_res}: the first exception of a child is raised instead.
Gathered(dobot_res, sim_res) ==
    IF dobot_res.raised THEN [raised |-> TRUE, status |-> "", adapter |-> "",
                              error |-> dobot_res.error, dobot |-> NoOutcome]
    ELSE IF sim_res.raised THEN [raised |-> TRUE, status |-> "", adapter |-> "",
                                 error |-> sim_res.error, dobot |-> NoOutcome]
    ELSE [raised |-> FALSE, status |-> sim_res.status, adapter |-> sim_res.adapter,
          error |-> "", dobot |-> dobot_res]

\* Some Dobot call has failed so far.
DobotFailed == \E c \in 1..Len(commands) : commands[c].dobot.status = "ERROR"

NewCommand(method) ==
    [method |-> method, pc |-> "gathering",
     dobot_pc |-> "scheduled", dobot |-> NoOutcome,
     sim_pc |-> "scheduled", sim |-> NoOutcome,
     after_failure |-> FALSE,
     result |-> [raised |-> FALSE, status |-> "", adapter |-> "", error |-> "",
                 dobot |-> NoOutcome]]

\* A caller awaits pick(), place(), move() or stop(): gather schedules the
\* Dobot call and the simulator call.
CallCommand ==
    /\ Len(commands) < MaxCommands
    /\ \E method \in Methods : commands' = Append(commands, NewCommand(method))
    /\ UNCHANGED <<_dobot_live, dobot_contacts>>
    /\ UNCHANGED <<engine_vars, lex_vars, tool_vars, store_vars, ws_vars>>

\* _dobot_call starts with the Dobot marked dead: it returns SKIPPED.
DobotCallSkipped(c) ==
    /\ commands[c].dobot_pc = "scheduled"
    /\ ~_dobot_live
    /\ commands' = [commands EXCEPT ![c].dobot_pc = "done", ![c].dobot = Skipped,
                                    ![c].after_failure = DobotFailed]
    /\ UNCHANGED <<_dobot_live, dobot_contacts>>
    /\ UNCHANGED <<engine_vars, lex_vars, tool_vars, store_vars, ws_vars>>

\* _dobot_call starts with the Dobot live: it awaits the Dobot's method.
DobotCallContacts(c) ==
    /\ commands[c].dobot_pc = "scheduled"
    /\ _dobot_live
    /\ commands' = [commands EXCEPT ![c].dobot_pc = "awaiting",
                                    ![c].after_failure = DobotFailed]
    /\ dobot_contacts' = Append(dobot_contacts, c)
    /\ UNCHANGED _dobot_live
    /\ UNCHANGED <<engine_vars, lex_vars, tool_vars, store_vars, ws_vars>>

\* The Dobot's method returns.
DobotReturns(c) ==
    /\ commands[c].dobot_pc = "awaiting"
    /\ commands' = [commands EXCEPT ![c].dobot_pc = "done",
                                    ![c].dobot = DobotAnswer(commands[c].method)]
    /\ UNCHANGED <<_dobot_live, dobot_contacts>>
    /\ UNCHANGED <<engine_vars, lex_vars, tool_vars, store_vars, ws_vars>>

\* The Dobot's method raises: except Exception marks the Dobot dead and
\* returns the ERROR dict.
DobotRaises(c) ==
    /\ commands[c].dobot_pc = "awaiting"
    /\ \E e \in DobotExceptions :
           commands' = [commands EXCEPT ![c].dobot_pc = "done", ![c].dobot = DobotError(e)]
    /\ _dobot_live' = LiveAfterFailure
    /\ UNCHANGED dobot_contacts
    /\ UNCHANGED <<engine_vars, lex_vars, tool_vars, store_vars, ws_vars>>

\* The simulator's method broadcasts its animation and returns.
SimulatorReturns(c) ==
    /\ commands[c].sim_pc = "scheduled"
    /\ commands' = [commands EXCEPT ![c].sim_pc = "done", ![c].sim = SimulatorAnswer]
    /\ UNCHANGED <<_dobot_live, dobot_contacts>>
    /\ UNCHANGED <<engine_vars, lex_vars, tool_vars, store_vars, ws_vars>>

\* Both children are done: the command returns to its caller.
GatherReturns(c) ==
    /\ commands[c].pc = "gathering"
    /\ commands[c].dobot_pc = "done"
    /\ commands[c].sim_pc = "done"
    /\ commands' = [commands EXCEPT
                       ![c].result = Gathered(commands[c].dobot, commands[c].sim),
                       ![c].pc = IF Gathered(commands[c].dobot, commands[c].sim).raised
                                 THEN "raised" ELSE "returned"]
    /\ UNCHANGED <<_dobot_live, dobot_contacts>>
    /\ UNCHANGED <<engine_vars, lex_vars, tool_vars, store_vars, ws_vars>>

\* DualAdapter.__init__
DualInit ==
    /\ EngineOff
    /\ _dobot_live = TRUE
    /\ commands = <<>>
    /\ dobot_contacts = <<>>
    /\ LexIdle /\ ToolIdle /\ StoreIdle /\ WsIdle

DualNext ==
    \/ CallCommand
    \/ \E c \in 1..Len(commands) :
           \/ DobotCallSkipped(c)
           \/ DobotCallContacts(c)
           \/ DobotReturns(c)
           \/ DobotRaises(c)
           \/ SimulatorReturns(c)
           \/ GatherReturns(c)

DualSpec == DualInit /\ [][DualNext]_vars

\* ------------------------------------------------------------------------
\* Properties of DualAdapter
\* ------------------------------------------------------------------------

Contacted(c) == \E k \in 1..Len(dobot_contacts) : dobot_contacts[k] = c

\* C27: no command ends with an exception when the Dobot raises; a command
\* that returned has issued the simulator command and returns its result,
\* with the Dobot's under "dobot"; once a Dobot call has failed _dobot_live
\* is false, and a Dobot call begun after a failure is skipped without
\* contacting the Dobot.
C27_DobotFailureContained ==
    /\ \A c \in 1..Len(commands) :
           /\ commands[c].pc # "raised"
           /\ commands[c].pc = "returned" =>
                  /\ commands[c].sim_pc = "done"
                  /\ commands[c].result.status = commands[c].sim.status
                  /\ commands[c].result.adapter = "simulator"
                  /\ commands[c].result.dobot = commands[c].dobot
           /\ (commands[c].after_failure /\ commands[c].dobot_pc # "scheduled") =>
                  /\ commands[c].dobot = Skipped
                  /\ ~Contacted(c)
    /\ DobotFailed => ~_dobot_live

\* The first command's Dobot call failed and the command returned the
\* simulator's result; the second command's Dobot call was skipped.
C27_Witness ==
    /\ Len(commands) = 2
    /\ commands[1].pc = "returned"
    /\ commands[1].result.status = "OK"
    /\ commands[1].result.dobot.status = "ERROR"
    /\ commands[2].after_failure
    /\ commands[2].pc = "returned"
    /\ commands[2].result.dobot.status = "SKIPPED"
    /\ dobot_contacts = <<1>>

\* ------------------------------------------------------------------------
\* PolicyStore: the table policies and the active policy
\* ------------------------------------------------------------------------

\* Bound of the calls of store, each with a policy created at a later time.
MaxStores == 3

PolicyIds == {"p1", "p2"}

PolicyStatus == {"DRAFT", "APPROVED", "SUSPENDED", "REJECTED"}

\* No row with the policy_id.
NoRow == [status |-> "", created_at |-> 0]

Row(status, created_at) == [status |-> status, created_at |-> created_at]

\* The greatest created_at in the table: policies are created at later times.
LatestCreated == CHOOSE t \in { _db[id].created_at : id \in PolicyIds } :
                     \A id \in PolicyIds : _db[id].created_at <= t

\* SELECT data FROM policies WHERE policy_id = ?: the row, or None
get(policy_id) == _db[policy_id]

\* SELECT ... WHERE status = ? ORDER BY created_at: the ids in that order
WithStatus(status) == { id \in PolicyIds : _db[id].status = status }

\* get_by_status(status)[-1], "" when the list is empty
LastByCreated(status) ==
    IF WithStatus(status) = {} THEN ""
    ELSE CHOOSE id \in WithStatus(status) :
             \A other \in WithStatus(status) : _db[other].created_at <= _db[id].created_at

\* INSERT OR REPLACE INTO policies
Stored(policy_id, row) == [_db EXCEPT ![policy_id] = row]

StoreOpen == store_pc \in {"open", "restarted"}

\* store(policy) with a new DRAFT policy, as document upload calls it; a
\* policy_id already in the table has its row replaced.
Store(policy_id) ==
    /\ StoreOpen
    /\ LatestCreated < MaxStores
    /\ _db' = Stored(policy_id, Row("DRAFT", LatestCreated + 1))
    /\ store_pc' = "open"
    /\ UNCHANGED <<_active, active_at_close>>
    /\ UNCHANGED <<engine_vars, lex_vars, tool_vars, dual_vars, ws_vars>>

\* approve(policy_id)
Approve(policy_id) ==
    /\ StoreOpen
    /\ IF get(policy_id) = NoRow
       THEN UNCHANGED <<_db, _active>>
       ELSE /\ _db' = Stored(policy_id, Row("APPROVED", get(policy_id).created_at))
            /\ _active' = policy_id
    /\ store_pc' = "open"
    /\ UNCHANGED active_at_close
    /\ UNCHANGED <<engine_vars, lex_vars, tool_vars, dual_vars, ws_vars>>

\* reject(policy_id)
Reject(policy_id) ==
    /\ StoreOpen
    /\ IF get(policy_id) = NoRow
       THEN UNCHANGED _db
       ELSE _db' = Stored(policy_id, Row("REJECTED", get(policy_id).created_at))
    /\ store_pc' = "open"
    /\ UNCHANGED <<_active, active_at_close>>
    /\ UNCHANGED <<engine_vars, lex_vars, tool_vars, dual_vars, ws_vars>>

\* suspend(policy_id)
Suspend(policy_id) ==
    /\ StoreOpen
    /\ IF get(policy_id) = NoRow
       THEN UNCHANGED <<_db, _active>>
       ELSE /\ _db' = Stored(policy_id, Row("SUSPENDED", get(policy_id).created_at))
            /\ _active' = IF _active = policy_id THEN "" ELSE _active
    /\ store_pc' = "open"
    /\ UNCHANGED active_at_close
    /\ UNCHANGED <<engine_vars, lex_vars, tool_vars, dual_vars, ws_vars>>

\* close() at shutdown: the connection is closed, the table stays.
Close ==
    /\ StoreOpen
    /\ store_pc' = "closed"
    /\ active_at_close' = _active
    /\ UNCHANGED <<_db, _active>>
    /\ UNCHANGED <<engine_vars, lex_vars, tool_vars, dual_vars, ws_vars>>

\* PolicyStore(db_path) and init() at the next start: _active is None, then
\* the last APPROVED policy by created_at if there is one.
Restart ==
    /\ store_pc = "closed"
    /\ _active' = LastByCreated("APPROVED")
    /\ store_pc' = "restarted"
    /\ UNCHANGED <<_db, active_at_close>>
    /\ UNCHANGED <<engine_vars, lex_vars, tool_vars, dual_vars, ws_vars>>

\* PolicyStore(db_path) and init() on an empty database
StoreInit ==
    /\ EngineOff
    /\ _db = [id \in PolicyIds |-> NoRow]
    /\ _active = ""
    /\ store_pc = "open"
    /\ active_at_close = ""
    /\ LexIdle /\ ToolIdle /\ DualIdle /\ WsIdle

StoreNext ==
    \/ \E policy_id \in PolicyIds :
           \/ Store(policy_id)
           \/ Approve(policy_id)
           \/ Reject(policy_id)
           \/ Suspend(policy_id)
    \/ Close
    \/ Restart

StoreSpec == StoreInit /\ [][StoreNext]_vars

\* ------------------------------------------------------------------------
\* Properties of PolicyStore
\* ------------------------------------------------------------------------

\* C28: whenever active_policy is set, the stored status of the policy
\* with its id is APPROVED (so rejecting or suspending the active policy
\* leaves no active policy).
C28_ActiveIsApproved ==
    (StoreOpen /\ _active # "") => _db[_active].status = "APPROVED"

\* p1 was approved and then rejected: it is still the active policy.
C28_Reached ==
    /\ store_pc = "open"
    /\ _active = "p1"
    /\ _db["p1"].status = "REJECTED"
    /\ _db["p2"] = NoRow

\* C30: after close and init on the same database, active_policy is the
\* policy that was active at the close, and there is none if there was none.
C30_RestartKeepsActive ==
    store_pc = "restarted" => _active = active_at_close

\* p1 was created before p2 and approved after it: p1 was active at the
\* close, p2 is active after the restart.
C30_Reached ==
    /\ store_pc = "restarted"
    /\ active_at_close = "p1"
    /\ _active = "p2"
    /\ _db["p1"].status = "APPROVED"
    /\ _db["p2"].status = "APPROVED"
    /\ _db["p1"].created_at < _db["p2"].created_at

\* ------------------------------------------------------------------------
\* ConnectionManager: connect, disconnect and one broadcast
\* ------------------------------------------------------------------------

Sockets == {"a", "b", "c"}

\* list.remove(ws): the first occurrence is taken out, the rest moves up.
RECURSIVE Without(_, _)
Without(list, ws) ==
    IF Len(list) = 0 THEN <<>>
    ELSE IF Head(list) = ws THEN Tail(list)
    ELSE <<Head(list)>> \o Without(Tail(list), ws)

InList(list, ws) == \E k \in 1..Len(list) : list[k] = ws

\* disconnect(ws): if ws in self._connections: self._connections.remove(ws)
Disconnected(list, ws) == IF InList(list, ws) THEN Without(list, ws) ELSE list

\* for ws in dead: self.disconnect(ws), from the k-th dead socket on
RECURSIVE WithoutDead(_, _, _)
WithoutDead(list, dead, k) ==
    IF k > Len(dead) THEN list
    ELSE WithoutDead(Disconnected(list, dead[k]), dead, k + 1)

NoBroadcast == [pc |-> "idle", next |-> 0, current |-> "", dead |-> <<>>]

\* websocket_endpoint: await manager.connect(ws) for a new websocket
Connect(ws) ==
    /\ deliveries[ws].state = "new"
    /\ _connections' = Append(_connections, ws)
    /\ deliveries' = [deliveries EXCEPT ![ws].state = "open"]
    /\ UNCHANGED <<broadcast, registered>>
    /\ UNCHANGED <<engine_vars, lex_vars, tool_vars, dual_vars, store_vars>>

\* websocket_endpoint: except WebSocketDisconnect: manager.disconnect(ws)
Disconnect(ws) ==
    /\ deliveries[ws].state = "open"
    /\ _connections' = Disconnected(_connections, ws)
    /\ deliveries' = [deliveries EXCEPT ![ws].state = "closed"]
    /\ registered' = registered \ {ws}
    /\ UNCHANGED broadcast
    /\ UNCHANGED <<engine_vars, lex_vars, tool_vars, dual_vars, store_vars>>

\* broadcast(data) is called: dead = [], and the for loop takes an iterator
\* of self._connections, which starts at index 0.
StartBroadcast ==
    /\ broadcast.pc = "idle"
    /\ broadcast' = [pc |-> "iterating", next |-> 0, current |-> "", dead |-> <<>>]
    /\ registered' = { _connections[k] : k \in 1..Len(_connections) }
    /\ UNCHANGED <<_connections, deliveries>>
    /\ UNCHANGED <<engine_vars, lex_vars, tool_vars, dual_vars, store_vars>>

\* The iterator yields the element at its index in the list as it is now,
\* and ws.send_json(data) is awaited.
SendNext ==
    /\ broadcast.pc = "iterating"
    /\ broadcast.next < Len(_connections)
    /\ broadcast' = [broadcast EXCEPT !.pc = "sending",
                                      !.current = _connections[broadcast.next + 1],
                                      !.next = @ + 1]
    /\ deliveries' = [deliveries EXCEPT ![_connections[broadcast.next + 1]].sends = @ + 1]
    /\ UNCHANGED <<_connections, registered>>
    /\ UNCHANGED <<engine_vars, lex_vars, tool_vars, dual_vars, store_vars>>

\* send_json returns.
SendSucceeds ==
    /\ broadcast.pc = "sending"
    /\ broadcast' = [broadcast EXCEPT !.pc = "iterating"]
    /\ UNCHANGED <<_connections, deliveries, registered>>
    /\ UNCHANGED <<engine_vars, lex_vars, tool_vars, dual_vars, store_vars>>

\* send_json raises: except Exception: dead.append(ws)
SendFails ==
    /\ broadcast.pc = "sending"
    /\ broadcast' = [broadcast EXCEPT !.pc = "iterating",
                                      !.dead = Append(@, broadcast.current)]
    /\ deliveries' = [deliveries EXCEPT ![broadcast.current].failed = TRUE]
    /\ UNCHANGED <<_connections, registered>>
    /\ UNCHANGED <<engine_vars, lex_vars, tool_vars, dual_vars, store_vars>>

\* The iterator is exhausted: the dead sockets are disconnected and
\* broadcast returns.
BroadcastReturns ==
    /\ broadcast.pc = "iterating"
    /\ broadcast.next >= Len(_connections)
    /\ _connections' = WithoutDead(_connections, broadcast.dead, 1)
    /\ broadcast' = [broadcast EXCEPT !.pc = "returned"]
    /\ UNCHANGED <<deliveries, registered>>
    /\ UNCHANGED <<engine_vars, lex_vars, tool_vars, dual_vars, store_vars>>

\* ConnectionManager.__init__, and websockets that have not connected yet
WsInit ==
    /\ EngineOff
    /\ _connections = <<>>
    /\ broadcast = NoBroadcast
    /\ deliveries = [ws \in Sockets |-> [state |-> "new", sends |-> 0, failed |-> FALSE]]
    /\ registered = {}
    /\ LexIdle /\ ToolIdle /\ DualIdle /\ StoreIdle

WsNext ==
    \/ \E ws \in Sockets : Connect(ws) \/ Disconnect(ws)
    \/ StartBroadcast
    \/ SendNext
    \/ SendSucceeds
    \/ SendFails
    \/ BroadcastReturns

WsSpec == WsInit /\ [][WsNext]_vars

\* ------------------------------------------------------------------------
\* Properties of ConnectionManager.broadcast
\* ------------------------------------------------------------------------

\* C29: when broadcast returns, every connection that was registered from
\* its start to its return has been sent the message exactly once, and no
\* connection whose send failed is registered any more.
C29_BroadcastReachesAll ==
    broadcast.pc = "returned" =>
        /\ \A ws \in registered : deliveries[ws].sends = 1
        /\ \A ws \in Sockets : deliveries[ws].failed => ~InList(_connections, ws)

\* a, b and c were connected; a was sent the message and disconnected while
\* the broadcast went on; b, registered all the time, was never sent it.
C29_Reached ==
    /\ broadcast.pc = "returned"
    /\ deliveries["a"].state = "closed"
    /\ deliveries["a"].sends = 1
    /\ "b" \in registered
    /\ deliveries["b"].sends = 0
    /\ deliveries["c"].sends = 1
    /\ _connections = <<"b", "c">>

====
